---- MODULE Spec2Model ----
(***************************************************************************)
(* A model of InspectorDOMAgent (WebCore/inspector/InspectorDOMAgent.cpp): *)
(* the agent that mirrors a DOM tree to the inspector front-end.  The     *)
(* state is the agent's members plus the DOM tree it observes; there is   *)
(* one action per entry point of the agent.  Every handler is a pure      *)
(* operator on a record `s` holding the members (same names as in the     *)
(* source), the tree, the calls the handler has made on m_frontend so far *)
(* (s.frontend) and the handler's return value (s.ret).                    *)
(***************************************************************************)
EXTENDS Integers, Sequences, FiniteSets, TLC

VARIABLES
    childNodes,               \* the DOM: node -> ordered sequence of its native children
    elementAttributes,        \* the DOM: element -> its attributes, in order
    characterData,            \* the DOM: text node -> its data
    m_documents,              \* ListHashSet<RefPtr<Document> >: documents listened to, in insertion order
    m_documentNodeToIdMap,    \* NodeToIdMap: the live map
    m_idToNode,               \* HashMap<long, Node*>
    m_idToNodesMap,           \* HashMap<long, NodeToIdMap*>: 0 is &m_documentNodeToIdMap, k > 0 the k-th dangling map
    m_danglingNodeToIdMaps,   \* Vector<NodeToIdMap*>
    m_childrenRequested,      \* HashSet<long>
    m_inspectedNodes,         \* Vector<long>
    m_lastNodeId,             \* long
    m_pendingMatchJobs,       \* Deque<MatchJob*>
    m_searchResults,          \* ListHashSet<Node*>
    m_matchJobsTimer,         \* Timer<InspectorDOMAgent>: stopped, or armed with a delay
    mutations,                \* the number of insertions and removals the page has made
    issued,                   \* every id bind() ever allocated, in allocation order
    searchReported            \* the nodes reported to the front-end by the search in progress

vars == <<childNodes, elementAttributes, characterData, m_documents, m_documentNodeToIdMap, m_idToNode, m_idToNodesMap,
          m_danglingNodeToIdMaps, m_childrenRequested, m_inspectedNodes, m_lastNodeId,
          m_pendingMatchJobs, m_searchResults, m_matchJobsTimer,
          mutations, issued, searchReported>>

----------------------------------------------------------------------------
(* Bounds of the model. *)

\* bind() is not run once m_lastNodeId would exceed MaxId + 1.
MaxId == 5
\* No more than MaxDangling detached maps are allocated between two discardBindings().
MaxDangling == 1
\* The page makes no more than MaxMutations insertions and removals.
MaxMutations == 2
\* The same, in the specification that runs searches.
MaxSearchMutations == 1
\* The front-end makes no more than MaxEdits edits that change the DOM.
MaxEdits == 2

----------------------------------------------------------------------------
(* The DOM the agent observes. *)

NULL == "null"

\* The nodes of the universe: the main document, three elements (one of them a frame
\* owner), a text node, a whitespace-only text node, and the frame's content
\* document with one element of its own.
Node == {"doc", "div", "span", "frame", "txt", "ws", "doc2", "inner"}

\* The element that Document::createElement() or the parser of setOuterHTML()
\* allocates when an edit of the front-end asks for one.
CreatedNode == {"created"}

AnyNode == Node \cup CreatedNode

DOCUMENT_NODE == "DOCUMENT_NODE"
ELEMENT_NODE == "ELEMENT_NODE"
TEXT_NODE == "TEXT_NODE"
DOCUMENT_FRAGMENT_NODE == "DOCUMENT_FRAGMENT_NODE"

nodeType(n) ==
    IF n \in {"doc", "doc2"} THEN DOCUMENT_NODE
    ELSE IF n \in {"txt", "ws"} THEN TEXT_NODE
    ELSE ELEMENT_NODE

\* The data of the text nodes when the page is built, as a sequence of characters.
markupData(n) ==
    IF n = "txt" THEN <<"x">>
    ELSE IF n = "ws" THEN <<" ", "\n">>
    ELSE <<>>

\* Node::nodeValue() of the text nodes.
nodeValue(n) == characterData[n]

isSpace(c) == c \in {" ", "\n", "\t"}

RECURSIVE stripLeading(_)
stripLeading(str) ==
    IF str # <<>> /\ isSpace(Head(str)) THEN stripLeading(Tail(str)) ELSE str

RECURSIVE stripTrailing(_)
stripTrailing(str) ==
    IF str # <<>> /\ isSpace(str[Len(str)])
    THEN stripTrailing(SubSeq(str, 1, Len(str) - 1))
    ELSE str

\* String::stripWhiteSpace()
stripWhiteSpace(str) == stripTrailing(stripLeading(str))

isFrameOwnerElement(n) == n = "frame"

\* HTMLFrameOwnerElement::contentDocument()
contentDocument(n) == IF n = "frame" THEN "doc2" ELSE NULL

\* Document::ownerElement()
ownerElement(d) == IF d = "doc2" THEN "frame" ELSE NULL

\* The parents under which the tree's own mutation code may put a node.
AllowedParent(n) ==
    CASE n = "div" -> {"doc"}
      [] n = "span" -> {"div"}
      [] n = "frame" -> {"div"}
      [] n = "txt" -> {"span"}
      [] n = "ws" -> {"div"}
      [] n = "inner" -> {"doc2"}
      [] OTHER -> {}

Range(seq) == {seq[i] : i \in 1..Len(seq)}

IndexOf(seq, x) == CHOOSE i \in 1..Len(seq) : seq[i] = x

\* Node::parentNode()
parentNode(t, n) ==
    IF \E p \in AnyNode : n \in Range(t[p])
    THEN CHOOSE p \in AnyNode : n \in Range(t[p])
    ELSE NULL

\* Node::firstChild()
firstChild(t, n) == IF t[n] = <<>> THEN NULL ELSE t[n][1]

\* Node::nextSibling()
nextSibling(t, n) ==
    LET p == parentNode(t, n) IN
    IF p = NULL THEN NULL
    ELSE LET i == IndexOf(t[p], n) IN
         IF i = Len(t[p]) THEN NULL ELSE t[p][i + 1]

\* Node::previousSibling()
previousSibling(t, n) ==
    LET p == parentNode(t, n) IN
    IF p = NULL THEN NULL
    ELSE LET i == IndexOf(t[p], n) IN
         IF i = 1 THEN NULL ELSE t[p][i - 1]

\* Element::tagName() of the elements, as a sequence of characters.
tagName(n) ==
    CASE n = "div" -> <<"d", "i", "v">>
      [] n = "span" -> <<"b">>
      [] n = "frame" -> <<"o", "b", "j", "e", "c", "t">>
      [] n = "inner" -> <<"p">>
      [] n = "created" -> <<"e", "m">>
      [] OTHER -> <<>>

\* The attributes of the elements when the page is built:
\* <div id="a">, <b class="a">, <object class="a">, <p>.
markupAttributes(n) ==
    CASE n = "div" -> <<[name |-> <<"i", "d">>, value |-> <<"a">>]>>
      [] n = "span" -> <<[name |-> <<"c", "l", "a", "s", "s">>, value |-> <<"a">>]>>
      [] n = "frame" -> <<[name |-> <<"c", "l", "a", "s", "s">>, value |-> <<"a">>]>>
      [] OTHER -> <<>>

\* Element::attributes()
attributes(n) == elementAttributes[n]

\* Element::getAttribute(): the empty string stands for the null one.
getAttribute(n, name) ==
    LET found == SelectSeq(attributes(n), LAMBDA a : a.name = name)
    IN  IF found = <<>> THEN <<>> ELSE found[1].value

\* The nodes of the subtree of n in document order (native children only: the
\* nodes of a frame's document belong to that document).
RECURSIVE traverse(_, _)
RECURSIVE traverseEach(_, _)
traverseEach(t, children) ==
    IF children = <<>> THEN <<>>
    ELSE traverse(t, Head(children)) \o traverseEach(t, Tail(children))

traverse(t, n) == <<n>> \o traverseEach(t, t[n])

\* The elements of a document in document order.
elementsOf(t, document) ==
    SelectSeq(traverse(t, document), LAMBDA n : nodeType(n) = ELEMENT_NODE)

\* The documents of the frame tree of the main frame, in traverseNext() order: the
\* main document and the content document of every frame owner in its tree.
frameDocuments(t, document) ==
    <<document>> \o
    SelectSeq(<<"doc2">>, LAMBDA d : ownerElement(d) \in Range(traverse(t, document)))

----------------------------------------------------------------------------
(* WTF::HashMap with integer values: get() of an absent key is 0. *)

EmptyMap == [x \in {} |-> 0]

get(map, k) == IF k \in DOMAIN map THEN map[k] ELSE 0

set(map, k, v) == [x \in (DOMAIN map) \cup {k} |-> IF x = k THEN v ELSE map[x]]

remove(map, k) == [x \in (DOMAIN map) \ {k} |-> map[x]]

RemoveFromSeq(seq, x) == SelectSeq(seq, LAMBDA y : y # x)

\* The NodeToIdMap a NodeToIdMap* refers to.
mapOf(s, ref) ==
    IF ref = 0 THEN s.m_documentNodeToIdMap ELSE s.m_danglingNodeToIdMaps[ref]

withMap(s, ref, m) ==
    IF ref = 0 THEN [s EXCEPT !.m_documentNodeToIdMap = m]
    ELSE [s EXCEPT !.m_danglingNodeToIdMaps[ref] = m]

\* A call on m_frontend.
call(s, name, args) == [s EXCEPT !.frontend = Append(@, [call |-> name, args |-> args])]

----------------------------------------------------------------------------
(* The traversal view. *)

isWhitespace(n) ==
    n # NULL /\ nodeType(n) = TEXT_NODE /\ Len(stripWhiteSpace(nodeValue(n))) = 0

RECURSIVE skipWhitespaceForward(_, _)
skipWhitespaceForward(t, n) ==
    IF isWhitespace(n) THEN skipWhitespaceForward(t, nextSibling(t, n)) ELSE n

RECURSIVE skipWhitespaceBackward(_, _)
skipWhitespaceBackward(t, n) ==
    IF isWhitespace(n) THEN skipWhitespaceBackward(t, previousSibling(t, n)) ELSE n

\* The node innerFirstChild() returns.
innerFirstChild(t, n) ==
    IF isFrameOwnerElement(n) /\ contentDocument(n) # NULL
    THEN firstChild(t, contentDocument(n))
    ELSE skipWhitespaceForward(t, firstChild(t, n))

innerNextSibling(t, n) == skipWhitespaceForward(t, nextSibling(t, n))

innerPreviousSibling(t, n) == skipWhitespaceBackward(t, previousSibling(t, n))

innerParentNode(t, n) ==
    LET parent == parentNode(t, n) IN
    IF parent # NULL /\ nodeType(parent) = DOCUMENT_NODE
    THEN ownerElement(parent)
    ELSE parent

RECURSIVE siblingChain(_, _)
siblingChain(t, n) ==
    IF n = NULL THEN <<>> ELSE <<n>> \o siblingChain(t, innerNextSibling(t, n))

\* The nodes a loop `for (child = innerFirstChild(n); child; child = innerNextSibling(child))` visits.
innerChildren(t, n) == siblingChain(t, innerFirstChild(t, n))

innerChildNodeCount(t, n) == Len(innerChildren(t, n))

----------------------------------------------------------------------------
(* The agent.  Each operator takes the record s of the members and returns   *)
(* the record after the call, with the call's return value in s.ret.         *)

mainFrameDocument(s) ==
    IF s.m_documents = <<>> THEN NULL ELSE Head(s.m_documents)

startListening(s, doc) ==
    IF doc \in Range(s.m_documents) THEN s
    ELSE [s EXCEPT !.m_documents = Append(@, doc)]

stopListening(s, doc) ==
    IF doc \notin Range(s.m_documents) THEN s
    ELSE [s EXCEPT !.m_documents = RemoveFromSeq(@, doc)]

\* innerFirstChild() starts listening to the content document of a frame owner.
innerFirstChildListen(s, n) ==
    IF isFrameOwnerElement(n) /\ contentDocument(n) # NULL
    THEN startListening(s, contentDocument(n))
    ELSE s

nodeForId(s, id) ==
    IF id = 0 THEN NULL
    ELSE IF id \in DOMAIN s.m_idToNode THEN s.m_idToNode[id]
    ELSE NULL

\* bind() without its early return: a fresh id on every call.
bindAlwaysAllocates(s, node, ref) ==
    LET fresh == s.m_lastNodeId
        s1 == withMap(s, ref, set(mapOf(s, ref), node, fresh))
    IN  [s1 EXCEPT !.m_lastNodeId = fresh + 1,
                   !.m_idToNode = set(@, fresh, node),
                   !.m_idToNodesMap = set(@, fresh, ref),
                   !.issued = Append(@, fresh),
                   !.ret = fresh]

bind(s, node, ref) ==
    LET id == get(mapOf(s, ref), node) IN
    IF id # 0 THEN [s EXCEPT !.ret = id]
    ELSE LET fresh == s.m_lastNodeId
             s1 == withMap(s, ref, set(mapOf(s, ref), node, fresh))
         IN  [s1 EXCEPT !.m_lastNodeId = fresh + 1,
                        !.m_idToNode = set(@, fresh, node),
                        !.m_idToNodesMap = set(@, fresh, ref),
                        !.issued = Append(@, fresh),
                        !.ret = fresh]

RECURSIVE unbind(_, _, _)
RECURSIVE unbindEach(_, _, _)

\* The loop of unbind() over the children of a node whose children were requested.
unbindEach(s, children, ref) ==
    IF children = <<>> THEN s
    ELSE unbindEach(unbind(s, Head(children), ref), Tail(children), ref)

\* unbind() that forgets m_idToNode.remove(id).
unbindKeepsIdToNode(s, node, ref) ==
    LET s1 == IF isFrameOwnerElement(node) THEN stopListening(s, contentDocument(node)) ELSE s
        id == get(mapOf(s1, ref), node)
    IN
    IF id = 0 THEN s1
    ELSE LET s2 == withMap(s1, ref, remove(mapOf(s1, ref), node))
         IN
         IF id \in s2.m_childrenRequested
         THEN LET s3 == [s2 EXCEPT !.m_childrenRequested = @ \ {id}]
              IN  unbindEach(innerFirstChildListen(s3, node),
                             innerChildren(s3.childNodes, node), ref)
         ELSE s2

unbind(s, node, ref) ==
    LET s1 == IF isFrameOwnerElement(node) THEN stopListening(s, contentDocument(node)) ELSE s
        id == get(mapOf(s1, ref), node)
    IN
    IF id = 0 THEN s1
    ELSE LET s2 == withMap([s1 EXCEPT !.m_idToNode = remove(@, id)], ref,
                           remove(mapOf(s1, ref), node))
         IN
         IF id \in s2.m_childrenRequested
         THEN LET s3 == [s2 EXCEPT !.m_childrenRequested = @ \ {id}]
              IN  unbindEach(innerFirstChildListen(s3, node),
                             innerChildren(s3.childNodes, node), ref)
         ELSE s2

isContainer(n) ==
    nodeType(n) \in {ELEMENT_NODE, DOCUMENT_NODE, DOCUMENT_FRAGMENT_NODE}

RECURSIVE buildObjectForNode(_, _, _, _)
RECURSIVE buildArrayForContainerChildren(_, _, _, _)
RECURSIVE buildEach(_, _, _, _, _)

\* The loop of buildArrayForContainerChildren(): s.ret is the array built so far.
buildEach(s, children, depth, ref, acc) ==
    IF children = <<>> THEN [s EXCEPT !.ret = acc]
    ELSE LET s1 == buildObjectForNode(s, Head(children), depth, ref)
         IN  buildEach(s1, Tail(children), depth, ref, Append(acc, s1.ret))

buildArrayForContainerChildren(s, container, depth, ref) ==
    LET s0 == innerFirstChildListen(s, container)
        t == s.childNodes
    IN
    IF depth = 0
    THEN IF innerChildNodeCount(t, container) = 1
            /\ nodeType(innerFirstChild(t, container)) = TEXT_NODE
         THEN LET s1 == buildObjectForNode(s0, innerFirstChild(t, container), 0, ref)
              IN  [s1 EXCEPT !.ret = <<s1.ret>>]
         ELSE [s0 EXCEPT !.ret = <<>>]
    ELSE buildEach(s0, innerChildren(t, container),
                   IF depth > 0 THEN depth - 1 ELSE depth, ref, <<>>)

\* The InspectorObject: its "id", "nodeType", "childNodeCount" (-1 when not set)
\* and "children" (empty when not set).
buildObjectForNode(s, node, depth, ref) ==
    LET s1 == bind(s, node, ref)
        id == s1.ret
    IN
    IF isContainer(node)
    THEN LET s2 == innerFirstChildListen(s1, node)
             nodeCount == innerChildNodeCount(s.childNodes, node)
             s3 == buildArrayForContainerChildren(s2, node, depth, ref)
         IN  [s3 EXCEPT !.ret = [id |-> id, nodeType |-> nodeType(node),
                                 childNodeCount |-> nodeCount, children |-> s3.ret]]
    ELSE [s1 EXCEPT !.ret = [id |-> id, nodeType |-> nodeType(node),
                             childNodeCount |-> -1, children |-> <<>>]]

pushDocumentToFrontend(s) ==
    LET document == mainFrameDocument(s) IN
    IF document = NULL THEN [s EXCEPT !.ret = FALSE]
    ELSE IF document \notin DOMAIN s.m_documentNodeToIdMap
    THEN LET s1 == buildObjectForNode(s, document, 2, 0)
         IN  [call(s1, "setDocument", <<s1.ret>>) EXCEPT !.ret = TRUE]
    ELSE [s EXCEPT !.ret = TRUE]

\* pushChildNodesToFrontend() without the test of m_childrenRequested.
pushChildNodesToFrontendAgain(s, nodeId) ==
    LET node == nodeForId(s, nodeId) IN
    IF node = NULL \/ ~isContainer(node) THEN s
    ELSE LET nodeMap == get(s.m_idToNodesMap, nodeId)
             s1 == buildArrayForContainerChildren(s, node, 1, nodeMap)
             s2 == [s1 EXCEPT !.m_childrenRequested = @ \cup {nodeId}]
         IN  call(s2, "setChildNodes", <<nodeId, s1.ret>>)

pushChildNodesToFrontend(s, nodeId) ==
    LET node == nodeForId(s, nodeId) IN
    IF node = NULL \/ ~isContainer(node) THEN s
    ELSE IF nodeId \in s.m_childrenRequested THEN s
    ELSE LET nodeMap == get(s.m_idToNodesMap, nodeId)
             s1 == buildArrayForContainerChildren(s, node, 1, nodeMap)
             s2 == [s1 EXCEPT !.m_childrenRequested = @ \cup {nodeId}]
         IN  call(s2, "setChildNodes", <<nodeId, s1.ret>>)

releaseDanglingNodes(s) == [s EXCEPT !.m_danglingNodeToIdMaps = <<>>]

\* discardBindings() that also restarts the id counter.
discardBindingsResetsCounter(s) ==
    LET s1 == [s EXCEPT !.m_documentNodeToIdMap = EmptyMap, !.m_idToNode = EmptyMap,
                        !.m_lastNodeId = 1]
        s2 == releaseDanglingNodes(s1)
    IN  [s2 EXCEPT !.m_childrenRequested = {}, !.m_inspectedNodes = <<>>]

discardBindings(s) ==
    LET s1 == [s EXCEPT !.m_documentNodeToIdMap = EmptyMap, !.m_idToNode = EmptyMap]
        s2 == releaseDanglingNodes(s1)
    IN  [s2 EXCEPT !.m_childrenRequested = {}, !.m_inspectedNodes = <<>>]

\* The while (true) loop of pushNodePathToFrontend(): the ancestors appended to
\* `path`, and the parentless node the walk ended at (NULL when it ended at an
\* ancestor bound in the live map).
RECURSIVE walkToKnownAncestor(_, _, _)
walkToKnownAncestor(s, node, path) ==
    LET parent == innerParentNode(s.childNodes, node) IN
    IF parent = NULL THEN [detachedRoot |-> node, path |-> path]
    ELSE IF get(s.m_documentNodeToIdMap, parent) # 0
    THEN [detachedRoot |-> NULL, path |-> Append(path, parent)]
    ELSE walkToKnownAncestor(s, parent, Append(path, parent))

\* The loop `for (int i = path.size() - 1; i >= 0; --i)` of pushNodePathToFrontend().
RECURSIVE pushPathEach(_, _, _, _)
pushPathEach(s, path, i, ref) ==
    IF i < 1 THEN s
    ELSE pushPathEach(pushChildNodesToFrontend(s, get(mapOf(s, ref), path[i])),
                      path, i - 1, ref)

\* The `if (!parent)` block of pushNodePathToFrontend(): a fresh dangling map is
\* appended, the parentless node is bound in it with depth 0 and announced.
announceDetachedRoot(s) == call(s, "setDetachedRoot", <<s.ret>>)

pushDetachedRoot(s, node) ==
    announceDetachedRoot(
        buildObjectForNode([s EXCEPT !.m_danglingNodeToIdMaps = Append(@, EmptyMap)],
                           node, 0, Len(s.m_danglingNodeToIdMaps) + 1))

\* `return map->get(nodeToPush)` at the end of pushNodePathToFrontend().
idInMap(s, ref, node) == [s EXCEPT !.ret = get(mapOf(s, ref), node)]

\* pushNodePathToFrontend() after its ancestor walk: `w` is the walk's result.
pushWalkedPath(s, nodeToPush, w) ==
    IF w.detachedRoot # NULL
    THEN idInMap(pushPathEach(pushDetachedRoot(s, w.detachedRoot), w.path, Len(w.path),
                              Len(s.m_danglingNodeToIdMaps) + 1),
                 Len(s.m_danglingNodeToIdMaps) + 1, nodeToPush)
    ELSE idInMap(pushPathEach(s, w.path, Len(w.path), 0), 0, nodeToPush)

\* pushNodePathToFrontend() after its call of pushDocumentToFrontend(), whose
\* result is s.ret.
pushNodePathWithDocument(s, nodeToPush) ==
    IF ~s.ret THEN [s EXCEPT !.ret = 0]
    ELSE IF get(s.m_documentNodeToIdMap, nodeToPush) # 0
    THEN [s EXCEPT !.ret = get(s.m_documentNodeToIdMap, nodeToPush)]
    ELSE pushWalkedPath(s, nodeToPush, walkToKnownAncestor(s, nodeToPush, <<>>))

pushNodePathToFrontend(s, nodeToPush) ==
    pushNodePathWithDocument(pushDocumentToFrontend(s), nodeToPush)

\* Timer: a stopped timer, and one armed by startOneShot(delay), the delay in
\* milliseconds.
TimerStopped == [active |-> FALSE, delay |-> 0]

startOneShot(delay) == [active |-> TRUE, delay |-> delay]

\* searchCanceled() that keeps m_searchResults.
searchCanceledKeepsResults(s) ==
    [s EXCEPT !.m_matchJobsTimer = TimerStopped,
              !.m_pendingMatchJobs = <<>>]

\* searchCanceled() that leaves the pending jobs on the queue.
searchCanceledKeepsJobs(s) ==
    [s EXCEPT !.m_matchJobsTimer = TimerStopped,
              !.m_searchResults = <<>>]

searchCanceled(s) ==
    [s EXCEPT !.m_matchJobsTimer = TimerStopped,
              !.m_pendingMatchJobs = <<>>,
              !.m_searchResults = <<>>]

RECURSIVE stopListeningEach(_, _)
stopListeningEach(s, docs) ==
    IF docs = <<>> THEN s
    ELSE stopListeningEach(stopListening(s, Head(docs)), Tail(docs))

\* reset() that leaves the search alone.
resetKeepsSearch(s) ==
    LET s1 == discardBindings(s)
    IN  stopListeningEach(s1, s1.m_documents)

reset(s) ==
    LET s1 == discardBindings(searchCanceled(s))
    IN  stopListeningEach(s1, s1.m_documents)

\* Document::documentElement(): the first element child.
documentElement(t, doc) ==
    LET elems == SelectSeq(t[doc], LAMBDA c : nodeType(c) = ELEMENT_NODE)
    IN  IF elems = <<>> THEN NULL ELSE Head(elems)

setDocument(s, doc) ==
    IF doc = mainFrameDocument(s) THEN s
    ELSE LET s1 == reset(s) IN
         IF doc # NULL
         THEN LET s2 == startListening(s1, doc) IN
              IF documentElement(s2.childNodes, doc) # NULL
              THEN pushDocumentToFrontend(s2)
              ELSE s2
         ELSE call(s1, "setDocument", <<NULL>>)

\* handleEvent() whose DOMContentLoaded branch re-pushes without discardBindings().
handleEventKeepsBindings(s, type, node) ==
    LET t == s.childNodes IN
    IF type = "DOMContentLoaded"
    THEN pushDocumentToFrontend(s)
    ELSE IF type = "load"
    THEN LET frameOwnerId == get(s.m_documentNodeToIdMap, node) IN
         IF frameOwnerId = 0 THEN s
         ELSE IF frameOwnerId \notin s.m_childrenRequested
         THEN call(innerFirstChildListen(s, node), "childNodeCountUpdated",
                   <<frameOwnerId, innerChildNodeCount(t, node)>>)
         ELSE LET parentId == get(s.m_documentNodeToIdMap, innerParentNode(t, node))
                  s1 == call(s, "childNodeRemoved", <<parentId, frameOwnerId>>)
                  s2 == buildObjectForNode(s1, node, 0, 0)
                  prevNode == innerPreviousSibling(t, node)
                  prevId == IF prevNode # NULL
                            THEN get(s2.m_documentNodeToIdMap, prevNode)
                            ELSE 0
                  s3 == call(s2, "childNodeInserted", <<parentId, prevId, s2.ret>>)
              IN  [s3 EXCEPT !.m_childrenRequested = @ \ {frameOwnerId}]
    ELSE s

handleEvent(s, type, node) ==
    LET t == s.childNodes IN
    IF type = "DOMContentLoaded"
    THEN pushDocumentToFrontend(discardBindings(s))
    ELSE IF type = "load"
    THEN LET frameOwnerId == get(s.m_documentNodeToIdMap, node) IN
         IF frameOwnerId = 0 THEN s
         ELSE IF frameOwnerId \notin s.m_childrenRequested
         THEN call(innerFirstChildListen(s, node), "childNodeCountUpdated",
                   <<frameOwnerId, innerChildNodeCount(t, node)>>)
         ELSE LET parentId == get(s.m_documentNodeToIdMap, innerParentNode(t, node))
                  s1 == call(s, "childNodeRemoved", <<parentId, frameOwnerId>>)
                  s2 == buildObjectForNode(s1, node, 0, 0)
                  prevNode == innerPreviousSibling(t, node)
                  prevId == IF prevNode # NULL
                            THEN get(s2.m_documentNodeToIdMap, prevNode)
                            ELSE 0
                  s3 == call(s2, "childNodeInserted", <<parentId, prevId, s2.ret>>)
              IN  [s3 EXCEPT !.m_childrenRequested = @ \ {frameOwnerId}]
    ELSE s

getChildNodes(s, callId, nodeId) ==
    call(pushChildNodesToFrontend(s, nodeId), "didGetChildNodes", <<callId>>)

\* didInsertDOMNode() that takes the native previous sibling, whitespace included.
didInsertDOMNodeNativeSibling(s, node) ==
    IF isWhitespace(node) THEN s
    ELSE LET s1 == unbind(s, node, 0)
             t == s.childNodes
             parent == parentNode(t, node)
             parentId == get(s1.m_documentNodeToIdMap, parent)
         IN
         IF parentId = 0 THEN s1
         ELSE IF parentId \notin s1.m_childrenRequested
         THEN call(innerFirstChildListen(s1, parent), "childNodeCountUpdated",
                   <<parentId, innerChildNodeCount(t, parent)>>)
         ELSE LET prevSibling == previousSibling(t, node)
                  prevId == IF prevSibling # NULL
                            THEN get(s1.m_documentNodeToIdMap, prevSibling)
                            ELSE 0
                  s2 == buildObjectForNode(s1, node, 0, 0)
              IN  call(s2, "childNodeInserted", <<parentId, prevId, s2.ret>>)

didInsertDOMNode(s, node) ==
    IF isWhitespace(node) THEN s
    ELSE LET s1 == unbind(s, node, 0)
             t == s.childNodes
             parent == parentNode(t, node)
             parentId == get(s1.m_documentNodeToIdMap, parent)
         IN
         IF parentId = 0 THEN s1
         ELSE IF parentId \notin s1.m_childrenRequested
         THEN call(innerFirstChildListen(s1, parent), "childNodeCountUpdated",
                   <<parentId, innerChildNodeCount(t, parent)>>)
         ELSE LET prevSibling == innerPreviousSibling(t, node)
                  prevId == IF prevSibling # NULL
                            THEN get(s1.m_documentNodeToIdMap, prevSibling)
                            ELSE 0
                  s2 == buildObjectForNode(s1, node, 0, 0)
              IN  call(s2, "childNodeInserted", <<parentId, prevId, s2.ret>>)

\* didRemoveDOMNode() that counts the native children, whitespace included.
didRemoveDOMNodeNativeCount(s, node) ==
    IF isWhitespace(node) THEN s
    ELSE LET t == s.childNodes
             parent == parentNode(t, node)
             parentId == get(s.m_documentNodeToIdMap, parent)
         IN
         IF parentId = 0 THEN s
         ELSE LET s1 == IF parentId \notin s.m_childrenRequested
                        THEN IF Len(t[parent]) = 1
                             THEN call(innerFirstChildListen(s, parent),
                                       "childNodeCountUpdated", <<parentId, 0>>)
                             ELSE innerFirstChildListen(s, parent)
                        ELSE call(s, "childNodeRemoved",
                                  <<parentId, get(s.m_documentNodeToIdMap, node)>>)
              IN  unbind(s1, node, 0)

\* didRemoveDOMNode() that unbinds the node before it reports the removal.
didRemoveDOMNodeUnbindsFirst(s, node) ==
    IF isWhitespace(node) THEN s
    ELSE LET t == s.childNodes
             parent == parentNode(t, node)
             parentId == get(s.m_documentNodeToIdMap, parent)
         IN
         IF parentId = 0 THEN s
         ELSE LET s1 == unbind(s, node, 0) IN
              IF parentId \notin s.m_childrenRequested
              THEN IF innerChildNodeCount(t, parent) = 1
                   THEN call(innerFirstChildListen(s1, parent),
                             "childNodeCountUpdated", <<parentId, 0>>)
                   ELSE innerFirstChildListen(s1, parent)
              ELSE call(s1, "childNodeRemoved",
                        <<parentId, get(s1.m_documentNodeToIdMap, node)>>)

didRemoveDOMNode(s, node) ==
    IF isWhitespace(node) THEN s
    ELSE LET t == s.childNodes
             parent == parentNode(t, node)
             parentId == get(s.m_documentNodeToIdMap, parent)
         IN
         IF parentId = 0 THEN s
         ELSE LET s1 == IF parentId \notin s.m_childrenRequested
                        THEN IF innerChildNodeCount(t, parent) = 1
                             THEN call(innerFirstChildListen(s, parent),
                                       "childNodeCountUpdated", <<parentId, 0>>)
                             ELSE innerFirstChildListen(s, parent)
                        ELSE call(s, "childNodeRemoved",
                                  <<parentId, get(s.m_documentNodeToIdMap, node)>>)
              IN  unbind(s1, node, 0)

----------------------------------------------------------------------------
(* Strings (sequences of characters) and the match jobs of a search. *)

\* String::find(c): the index, from 0, of the first occurrence of c, or -1.
find(str, c) ==
    IF \E i \in 1..Len(str) : str[i] = c
    THEN (CHOOSE i \in 1..Len(str) : str[i] = c /\ \A j \in 1..(i - 1) : str[j] # c) - 1
    ELSE -1

\* String::reverseFind(c): the index, from 0, of the last occurrence of c, or -1.
reverseFind(str, c) ==
    IF \E i \in 1..Len(str) : str[i] = c
    THEN (CHOOSE i \in 1..Len(str) : str[i] = c /\ \A j \in (i + 1)..Len(str) : str[j] # c) - 1
    ELSE -1

\* String::substring(pos, len)
substring(str, pos, len) ==
    SubSeq(str, pos + 1, IF pos + len > Len(str) THEN Len(str) ELSE pos + len)

\* String::replace("'", "\\'")
RECURSIVE escapeQuotes(_)
escapeQuotes(str) ==
    IF str = <<>> THEN <<>>
    ELSE (IF Head(str) = "'" THEN <<"\\", "'">> ELSE <<Head(str)>>) \o escapeQuotes(Tail(str))

\* XPath contains() and starts-with() on strings.
containsString(str, sub) ==
    \E i \in 1..(Len(str) - Len(sub) + 1) : SubSeq(str, i, i + Len(sub) - 1) = sub

startsWith(str, prefix) ==
    Len(prefix) <= Len(str) /\ SubSeq(str, 1, Len(prefix)) = prefix

NameStartChar ==
    {"a", "b", "c", "d", "e", "f", "g", "h", "i", "j", "k", "l", "m", "n", "o", "p",
     "q", "r", "s", "t", "u", "v", "w", "x", "y", "z", "_", ":"}

NameChar == NameStartChar \cup {"0", "1", "2", "3", "4", "5", "6", "7", "8", "9", "-", "."}

\* Document::isValidName(): an XML Name.
isValidName(str) ==
    /\ str # <<>>
    /\ str[1] \in NameStartChar
    /\ \A i \in 2..Len(str) : str[i] \in NameChar

\* A MatchJob is [kind, document, query].  The kind names the class of the job and,
\* for the selector and XPath jobs performSearch() builds from a template, the
\* template, whose argument is the query:
\*   "QuerySelectorAll:attribute"  "[" + query + "]"
\*   "XPath:starts-with-name"      "//*[starts-with(name(), '" + query + "')]"
\*   "XPath:contains-name"         "//*[contains(name(), '" + query + "')]"
\*   "XPath:contains-attribute"    "//*[contains(@*, '" + query + "')]"
\*   "PlainText"                   "//text()[contains(., '" + query + "')] | //comment()[...]"
\* "QuerySelectorAll" and "XPath" carry the query as the front-end typed it.
MatchJob(kind, document, query) == [kind |-> kind, document |-> document, query |-> query]

\* A string literal '...' of an XPath expression ends at the first quote: the
\* template with a quote in its argument does not parse.
xpathLiteralParses(query) == \A i \in 1..Len(query) : query[i] # "'"

\* The XPath expression //text(): every text node of the document.
AllTextQuery == <<"/", "/", "t", "e", "x", "t", "(", ")">>

\* MatchJob::match(): the nodes the job adds to the collector, in the order it
\* finds them.  Of the expressions the front-end may type, the XPath job evaluates
\* //text() and a name test (the children of the document with that name); any
\* other string is taken not to parse.
match(t, job) ==
    LET elements == elementsOf(t, job.document)
        q == job.query
    IN
    CASE job.kind = "ExactId" ->
             IF q = <<>> THEN <<>>
             ELSE LET found == SelectSeq(elements, LAMBDA n : getAttribute(n, <<"i", "d">>) = q)
                  IN  IF found = <<>> THEN <<>> ELSE <<found[1]>>
      [] job.kind = "ExactClassNames" ->
             IF q = <<>> THEN <<>>
             ELSE SelectSeq(elements, LAMBDA n : getAttribute(n, <<"c", "l", "a", "s", "s">>) = q)
      [] job.kind = "ExactTagNames" ->
             IF q = <<>> THEN <<>>
             ELSE SelectSeq(elements, LAMBDA n : getAttribute(n, <<"n", "a", "m", "e">>) = q)
      [] job.kind = "QuerySelectorAll:attribute" ->
             IF ~isValidName(q) THEN <<>>
             ELSE SelectSeq(elements,
                            LAMBDA n : \E i \in 1..Len(attributes(n)) : attributes(n)[i].name = q)
      [] job.kind = "QuerySelectorAll" ->
             IF ~isValidName(q) THEN <<>>
             ELSE SelectSeq(elements, LAMBDA n : tagName(n) = q)
      [] job.kind = "XPath:starts-with-name" ->
             IF ~xpathLiteralParses(q) THEN <<>>
             ELSE SelectSeq(elements, LAMBDA n : startsWith(tagName(n), q))
      [] job.kind = "XPath:contains-name" ->
             IF ~xpathLiteralParses(q) THEN <<>>
             ELSE SelectSeq(elements, LAMBDA n : containsString(tagName(n), q))
      [] job.kind = "XPath:contains-attribute" ->
             IF ~xpathLiteralParses(q) THEN <<>>
             ELSE SelectSeq(elements,
                            LAMBDA n : attributes(n) # <<>>
                                       /\ containsString(attributes(n)[1].value, q))
      [] job.kind = "PlainText" ->
             IF ~xpathLiteralParses(q) THEN <<>>
             ELSE SelectSeq(traverse(t, job.document),
                            LAMBDA n : nodeType(n) = TEXT_NODE /\ containsString(nodeValue(n), q))
      [] job.kind = "XPath" ->
             IF q = AllTextQuery
             THEN SelectSeq(traverse(t, job.document), LAMBDA n : nodeType(n) = TEXT_NODE)
             ELSE IF ~isValidName(q) THEN <<>>
             ELSE SelectSeq(t[job.document],
                            LAMBDA n : nodeType(n) = ELEMENT_NODE /\ tagName(n) = q)
      [] OTHER -> <<>>

----------------------------------------------------------------------------
(* Search. *)

\* The delay between two ticks of a search, in milliseconds: startOneShot(0.025).
MatchJobsDelay == 25

\* ListHashSet<Node*>::add() of each node: first insertion wins, order is kept.
RECURSIVE addAll(_, _)
addAll(collector, nodes) ==
    IF nodes = <<>> THEN collector
    ELSE addAll(IF Head(nodes) \in Range(collector) THEN collector
                ELSE Append(collector, Head(nodes)),
                Tail(nodes))

\* The loop of reportNodesAsSearchResults() without its m_searchResults.contains() test.
RECURSIVE reportEachAgain(_, _, _, _)
RECURSIVE reportPushedAgain(_, _, _, _)
reportEachAgain(s, nodes, nodeIds, fresh) ==
    IF nodes = <<>>
    THEN [call(s, "addNodesToSearchResult", <<nodeIds>>) EXCEPT !.reported = Append(@, fresh)]
    ELSE reportPushedAgain(pushNodePathToFrontend(
                               [s EXCEPT !.m_searchResults = addAll(@, <<Head(nodes)>>)],
                               Head(nodes)),
                           nodes, nodeIds, fresh)

reportPushedAgain(s, nodes, nodeIds, fresh) ==
    reportEachAgain(s, Tail(nodes), Append(nodeIds, s.ret), Append(fresh, Head(nodes)))

\* The loop of reportNodesAsSearchResults(): nodeIds is the array built so far,
\* fresh the nodes that were not in m_searchResults.  s.reported records, for
\* each addNodesToSearchResult, the nodes whose ids it carries.
RECURSIVE reportEach(_, _, _, _)
RECURSIVE reportPushed(_, _, _, _)
reportEach(s, nodes, nodeIds, fresh) ==
    IF nodes = <<>>
    THEN [call(s, "addNodesToSearchResult", <<nodeIds>>) EXCEPT !.reported = Append(@, fresh)]
    ELSE IF Head(nodes) \in Range(s.m_searchResults)
    THEN reportEach(s, Tail(nodes), nodeIds, fresh)
    ELSE reportPushed(pushNodePathToFrontend(
                          [s EXCEPT !.m_searchResults = Append(@, Head(nodes))], Head(nodes)),
                      nodes, nodeIds, fresh)

reportPushed(s, nodes, nodeIds, fresh) ==
    reportEach(s, Tail(nodes), Append(nodeIds, s.ret), Append(fresh, Head(nodes)))

reportNodesAsSearchResults(s, resultCollector) ==
    reportEach(s, resultCollector, <<>>, <<>>)

\* The jobs performSearch() appends for one document.
jobsFor(document, query) ==
    LET queryLength == Len(query)
        startTagFound == find(query, "<") = 0
        endTagFound == reverseFind(query, ">") + 1 = queryLength
        stripped == IF startTagFound \/ endTagFound
                    THEN substring(query, IF startTagFound THEN 1 ELSE 0,
                                   IF endTagFound THEN queryLength - 1 ELSE queryLength)
                    ELSE query
        tagNameQuery == IF isValidName(stripped) THEN stripped ELSE <<>>
        attributeNameQuery == IF isValidName(query) THEN query ELSE <<>>
        escapedQuery == escapeQuotes(query)
        escapedTagNameQuery == escapeQuotes(tagNameQuery)
        matchesEveryNode == query \in {<<"/", "/", "*">>, <<"*">>}
    IN
    IF tagNameQuery # <<>> /\ startTagFound /\ endTagFound
    THEN <<MatchJob("ExactTagNames", document, tagNameQuery),
           MatchJob("PlainText", document, escapedQuery)>>
    ELSE IF tagNameQuery # <<>> /\ startTagFound
    THEN <<MatchJob("XPath:starts-with-name", document, escapedTagNameQuery),
           MatchJob("PlainText", document, escapedQuery)>>
    ELSE IF tagNameQuery # <<>> /\ endTagFound
    THEN <<MatchJob("XPath:contains-name", document, escapedTagNameQuery),
           MatchJob("PlainText", document, escapedQuery)>>
    ELSE IF matchesEveryNode
    THEN <<MatchJob("XPath:contains-attribute", document, escapedQuery),
           MatchJob("PlainText", document, escapedQuery)>>
    ELSE <<MatchJob("ExactId", document, query),
           MatchJob("ExactClassNames", document, query),
           MatchJob("ExactTagNames", document, tagNameQuery),
           MatchJob("QuerySelectorAll:attribute", document, attributeNameQuery),
           MatchJob("QuerySelectorAll", document, query),
           MatchJob("XPath:contains-attribute", document, escapedQuery)>>
         \o (IF tagNameQuery # <<>>
             THEN <<MatchJob("XPath:contains-name", document, escapedTagNameQuery)>>
             ELSE <<>>)
         \o <<MatchJob("PlainText", document, escapedQuery),
              MatchJob("XPath", document, query)>>

\* The loop of performSearch() over the frames of the main frame's tree.
RECURSIVE jobsForEach(_, _)
jobsForEach(documents, query) ==
    IF documents = <<>> THEN <<>>
    ELSE jobsFor(Head(documents), query) \o jobsForEach(Tail(documents), query)

\* The synchronous loop of performSearch(): every job matches into one collector.
RECURSIVE matchEach(_, _, _)
matchEach(t, jobs, resultCollector) ==
    IF jobs = <<>> THEN resultCollector
    ELSE matchEach(t, Tail(jobs), addAll(resultCollector, match(t, Head(jobs))))

\* performSearch() once the pending jobs were cleared and appended anew.
performSearchQueued(s, runSynchronously) ==
    IF runSynchronously
    THEN searchCanceled(
             reportNodesAsSearchResults(s, matchEach(s.childNodes, s.m_pendingMatchJobs, <<>>)))
    ELSE [s EXCEPT !.m_matchJobsTimer = startOneShot(0)]

\* performSearch() that queues jobs for the documents the agent listens to.
performSearchOfListened(s, whitespaceTrimmedQuery, runSynchronously) ==
    IF mainFrameDocument(s) = NULL THEN [searchCanceled(s) EXCEPT !.crashed = TRUE]
    ELSE performSearchQueued(
             [searchCanceled(s) EXCEPT
                 !.m_pendingMatchJobs = jobsForEach(s.m_documents, whitespaceTrimmedQuery)],
             runSynchronously)

\* performSearch().  Its loop starts at mainFrameDocument()->frame(): without a
\* main document the call goes through a null pointer, after searchCanceled().
performSearch(s, whitespaceTrimmedQuery, runSynchronously) ==
    IF mainFrameDocument(s) = NULL THEN [searchCanceled(s) EXCEPT !.crashed = TRUE]
    ELSE performSearchQueued(
             [searchCanceled(s) EXCEPT
                 !.m_pendingMatchJobs =
                     jobsForEach(frameDocuments(s.childNodes, mainFrameDocument(s)),
                                 whitespaceTrimmedQuery)],
             runSynchronously)

\* onMatchJobsTimer() with jobs pending that does not arm the timer again.
runMatchJobOnce(s, job) ==
    reportNodesAsSearchResults(s, addAll(<<>>, match(s.childNodes, job)))

\* onMatchJobsTimer() with jobs pending that gives the search up after a selector
\* job that added nothing.
runMatchJobUntilNoSelection(s, job) ==
    [reportNodesAsSearchResults(s, addAll(<<>>, match(s.childNodes, job)))
        EXCEPT !.m_matchJobsTimer =
                   IF job.kind = "QuerySelectorAll" /\ match(s.childNodes, job) = <<>>
                   THEN TimerStopped
                   ELSE startOneShot(MatchJobsDelay)]

\* onMatchJobsTimer() with jobs pending: s is the agent with the first job taken.
runMatchJob(s, job) ==
    [reportNodesAsSearchResults(s, addAll(<<>>, match(s.childNodes, job)))
        EXCEPT !.m_matchJobsTimer = startOneShot(MatchJobsDelay)]

\* onMatchJobsTimer() that runs the first job and leaves it on the queue.
onMatchJobsTimerKeepsJob(s) ==
    IF s.m_pendingMatchJobs = <<>>
    THEN searchCanceled([s EXCEPT !.m_matchJobsTimer = TimerStopped])
    ELSE runMatchJob([s EXCEPT !.m_matchJobsTimer = TimerStopped],
                     Head(s.m_pendingMatchJobs))

\* onMatchJobsTimer() that, finding no job pending, returns without searchCanceled().
onMatchJobsTimerLeavesResults(s) ==
    IF s.m_pendingMatchJobs = <<>>
    THEN [s EXCEPT !.m_matchJobsTimer = TimerStopped]
    ELSE runMatchJob([s EXCEPT !.m_matchJobsTimer = TimerStopped,
                               !.m_pendingMatchJobs = Tail(@)],
                     Head(s.m_pendingMatchJobs))

\* onMatchJobsTimer(): the one-shot timer has fired and is not active any more.
onMatchJobsTimer(s) ==
    IF s.m_pendingMatchJobs = <<>>
    THEN searchCanceled([s EXCEPT !.m_matchJobsTimer = TimerStopped])
    ELSE runMatchJob([s EXCEPT !.m_matchJobsTimer = TimerStopped,
                               !.m_pendingMatchJobs = Tail(@)],
                     Head(s.m_pendingMatchJobs))

\* addInspectedNode()
addInspectedNode(s, nodeId) ==
    [s EXCEPT !.m_inspectedNodes =
                  SubSeq(<<nodeId>> \o @, 1, IF Len(@) + 1 > 5 THEN 5 ELSE Len(@) + 1)]

----------------------------------------------------------------------------
(* The tree's mutation primitives the edits of the front-end call.  Each  *)
(* either makes its whole change, calling the agent's notification entry  *)
(* points, and leaves s.ec = 0, or refuses: it leaves s.ec # 0 and the     *)
(* tree as it was.  A primitive refuses what the DOM forbids (a second     *)
(* element under a document, a node put before a node that is no child of *)
(* the parent, outer markup of an element whose parent is no element);     *)
(* whether it refuses a change it could make is an input (`refused`).      *)

\* ContainerNode::removeChild(): the agent is told while the child is still in place.
removeChild(s, parent, oldChild, refused) ==
    IF refused \/ parentNode(s.childNodes, oldChild) # parent
    THEN [s EXCEPT !.ec = 1]
    ELSE [didRemoveDOMNode(s, oldChild) EXCEPT
             !.childNodes[parent] = RemoveFromSeq(@, oldChild),
             !.ec = 0]

\* The children with newChild put before refChild, or last if refChild is null.
withChildBefore(children, newChild, refChild) ==
    IF refChild = NULL THEN Append(children, newChild)
    ELSE SubSeq(children, 1, IndexOf(children, refChild) - 1) \o <<newChild>>
         \o SubSeq(children, IndexOf(children, refChild), Len(children))

\* The insertion itself, of a node that has no parent: the agent is told once
\* the child is in place.
insertedBefore(s, parent, newChild, refChild) ==
    didInsertDOMNode([s EXCEPT !.childNodes[parent] = withChildBefore(@, newChild, refChild),
                               !.ec = 0],
                     newChild)

\* Document::childTypeAllowed(): a document holds one element at most.
childTypeAllowed(t, parent, newChild) ==
    (nodeType(parent) = DOCUMENT_NODE /\ nodeType(newChild) = ELEMENT_NODE) =>
        \A i \in 1..Len(t[parent]) : nodeType(t[parent][i]) # ELEMENT_NODE

\* ContainerNode::insertBefore() of a node that has no parent.
insertBefore(s, parent, newChild, refChild, refused) ==
    IF \/ refused
       \/ ~childTypeAllowed(s.childNodes, parent, newChild)
       \/ (refChild # NULL /\ parentNode(s.childNodes, refChild) # parent)
    THEN [s EXCEPT !.ec = 1]
    ELSE insertedBefore(s, parent, newChild, refChild)

\* ContainerNode::appendChild(): the child is first removed from the parent it has.
appendChild(s, parent, newChild) ==
    insertedBefore(IF parentNode(s.childNodes, newChild) = NULL THEN s
                   ELSE removeChild(s, parentNode(s.childNodes, newChild), newChild, FALSE),
                   parent, newChild, NULL)

\* Document::createElement(): null (and an exception code) for a name that is
\* no valid name, else the new element of that name.
createElement(name) ==
    IF ~isValidName(name) \/ ~\E n \in CreatedNode : tagName(n) = name THEN NULL
    ELSE CHOOSE n \in CreatedNode : tagName(n) = name

\* The markup "<em></em>", and the nodes the parser builds from a markup: the
\* one element for "<em></em>", none for the empty string.
CreatedMarkup == <<"<", "e", "m", ">", "<", "/", "e", "m", ">">>

createContextualFragment(html) ==
    IF html = CreatedMarkup THEN <<"created">> ELSE <<>>

RECURSIVE insertEachBefore(_, _, _, _)
insertEachBefore(s, parent, nodes, refChild) ==
    IF nodes = <<>> THEN [s EXCEPT !.ec = 0]
    ELSE insertEachBefore(insertedBefore(s, parent, Head(nodes), refChild),
                          parent, Tail(nodes), refChild)

\* HTMLElement::setOuterHTML(): the element is replaced by the nodes parsed from
\* the markup; an element whose parent is no element cannot be replaced.
elementSetOuterHTML(s, node, html, refused) ==
    IF \/ refused
       \/ parentNode(s.childNodes, node) = NULL
       \/ nodeType(parentNode(s.childNodes, node)) # ELEMENT_NODE
    THEN [s EXCEPT !.ec = 1]
    ELSE insertEachBefore(removeChild(s, parentNode(s.childNodes, node), node, FALSE),
                          parentNode(s.childNodes, node),
                          createContextualFragment(html),
                          nextSibling(s.childNodes, node))

\* Text::replaceWholeText(): the empty string removes the node, any other
\* becomes its data (no text node of the model has a text node next to it).
replaceWholeText(s, node, value, refused) ==
    IF refused THEN [s EXCEPT !.ec = 1]
    ELSE IF value # <<>> THEN [s EXCEPT !.characterData[node] = value, !.ec = 0]
    ELSE IF parentNode(s.childNodes, node) = NULL THEN [s EXCEPT !.ec = 0]
    ELSE removeChild(s, parentNode(s.childNodes, node), node, FALSE)

\* didModifyDOMAttr()
didModifyDOMAttr(s, element) ==
    IF get(s.m_documentNodeToIdMap, element) = 0 THEN s
    ELSE call(s, "attributesUpdated",
              <<get(s.m_documentNodeToIdMap, element), s.elementAttributes[element]>>)

\* Element::setAttribute(): an invalid name is refused; the value of the
\* attribute of that name is replaced, or the attribute added last.
elementSetAttribute(s, element, name, value, refused) ==
    IF refused \/ ~isValidName(name) THEN [s EXCEPT !.ec = 1]
    ELSE didModifyDOMAttr(
             [s EXCEPT !.ec = 0,
                       !.elementAttributes[element] =
                           IF \E i \in 1..Len(@) : @[i].name = name
                           THEN [i \in 1..Len(@) |->
                                    IF @[i].name = name
                                    THEN [name |-> name, value |-> value] ELSE @[i]]
                           ELSE Append(@, [name |-> name, value |-> value])],
             element)

\* Element::removeAttribute(): removing an attribute the element has not is no error.
elementRemoveAttribute(s, element, name, refused) ==
    IF refused THEN [s EXCEPT !.ec = 1]
    ELSE IF ~\E i \in 1..Len(s.elementAttributes[element]) :
                 s.elementAttributes[element][i].name = name
    THEN [s EXCEPT !.ec = 0]
    ELSE didModifyDOMAttr(
             [s EXCEPT !.ec = 0,
                       !.elementAttributes[element] = SelectSeq(@, LAMBDA a : a.name # name)],
             element)

----------------------------------------------------------------------------
(* The edits of the front-end. *)

\* The answer to an edit after the primitive that left s.
didApplyDomChange(s, callId) == call(s, "didApplyDomChange", <<callId, s.ec = 0>>)

\* setAttribute()
setAttribute(s, callId, elementId, name, value, refused) ==
    IF nodeForId(s, elementId) # NULL /\ nodeType(nodeForId(s, elementId)) = ELEMENT_NODE
    THEN didApplyDomChange(
             elementSetAttribute(s, nodeForId(s, elementId), name, value, refused), callId)
    ELSE call(s, "didApplyDomChange", <<callId, FALSE>>)

\* removeAttribute()
removeAttribute(s, callId, elementId, name, refused) ==
    IF nodeForId(s, elementId) # NULL /\ nodeType(nodeForId(s, elementId)) = ELEMENT_NODE
    THEN didApplyDomChange(
             elementRemoveAttribute(s, nodeForId(s, elementId), name, refused), callId)
    ELSE call(s, "didApplyDomChange", <<callId, FALSE>>)

\* removeNode() after parentNode->removeChild(node, ec).
didRemoveNode(s, callId, nodeId) ==
    call(s, "didRemoveNode", <<callId, IF s.ec # 0 THEN 0 ELSE nodeId>>)

\* removeNode()
removeNode(s, callId, nodeId, refused) ==
    IF nodeForId(s, nodeId) = NULL
    THEN call(s, "didRemoveNode", <<callId, 0>>)
    ELSE IF parentNode(s.childNodes, nodeForId(s, nodeId)) = NULL
    THEN call(s, "didRemoveNode", <<callId, 0>>)
    ELSE didRemoveNode(removeChild(s, parentNode(s.childNodes, nodeForId(s, nodeId)),
                                   nodeForId(s, nodeId), refused),
                       callId, nodeId)

\* The loop `while ((child = oldNode->firstChild())) newElem->appendChild(child, ec)`.
RECURSIVE copyChildren(_, _, _)
copyChildren(s, oldNode, newElem) ==
    IF firstChild(s.childNodes, oldNode) = NULL THEN s
    ELSE copyChildren(appendChild(s, newElem, firstChild(s.childNodes, oldNode)),
                      oldNode, newElem)

\* The end of changeTagName(): s.ret is the id pushNodePathToFrontend(newElem) returned.
didChangeTagName(s, callId, childrenRequested) ==
    call(IF childrenRequested THEN pushChildNodesToFrontend(s, s.ret) ELSE s,
         "didChangeTagName", <<callId, s.ret>>)

\* changeTagName() after parent->insertBefore() and parent->removeChild(): ec is
\* what the last of the two left.
changeTagNameReplaced(s, callId, newElem, childrenRequested) ==
    IF s.ec # 0 THEN call(s, "didChangeTagName", <<callId, 0>>)
    ELSE didChangeTagName(pushNodePathToFrontend(s, newElem), callId, childrenRequested)

\* changeTagName() from `Node* parent = oldNode->parentNode()` on: the calls on
\* parent dereference a null pointer if the old node has no parent.
changeTagNameReplace(s, callId, oldNode, newElem, childrenRequested, refusedInsert, refusedRemove) ==
    IF parentNode(s.childNodes, oldNode) = NULL THEN [s EXCEPT !.crashed = TRUE]
    ELSE changeTagNameReplaced(
             removeChild(insertBefore(s, parentNode(s.childNodes, oldNode), newElem,
                                      nextSibling(s.childNodes, oldNode), refusedInsert),
                         parentNode(s.childNodes, oldNode), oldNode, refusedRemove),
             callId, newElem, childrenRequested)

\* changeTagName()
changeTagName(s, callId, nodeId, name, refusedInsert, refusedRemove) ==
    IF nodeForId(s, nodeId) = NULL \/ nodeType(nodeForId(s, nodeId)) # ELEMENT_NODE
    THEN call(s, "didChangeTagName", <<callId, 0>>)
    ELSE IF createElement(name) = NULL
    THEN call(s, "didChangeTagName", <<callId, 0>>)
    ELSE changeTagNameReplace(
             copyChildren(
                 [s EXCEPT !.elementAttributes[createElement(name)] =
                               s.elementAttributes[nodeForId(s, nodeId)]],
                 nodeForId(s, nodeId), createElement(name)),
             callId, nodeForId(s, nodeId), createElement(name),
             nodeId \in s.m_childrenRequested, refusedInsert, refusedRemove)

\* The end of setOuterHTML(): s.ret is the id pushNodePathToFrontend(newNode) returned.
didSetOuterHTML(s, callId, childrenRequested) ==
    call(IF childrenRequested THEN pushChildNodesToFrontend(s, s.ret) ELSE s,
         "didSetOuterHTML", <<callId, s.ret>>)

\* setOuterHTML() from `Node* newNode = ...` on.  With no previous sibling and
\* no parent the code dereferences a null pointer; it hands a null newNode to
\* pushNodePathToFrontend(), which asserts its argument and looks it up.
setOuterHTMLPush(s, callId, childrenRequested, prevSibling, parent) ==
    IF prevSibling = NULL /\ parent = NULL THEN [s EXCEPT !.crashed = TRUE]
    ELSE IF (IF prevSibling # NULL THEN nextSibling(s.childNodes, prevSibling)
             ELSE firstChild(s.childNodes, parent)) = NULL
    THEN [s EXCEPT !.crashed = TRUE]
    ELSE didSetOuterHTML(
             pushNodePathToFrontend(s, IF prevSibling # NULL
                                       THEN nextSibling(s.childNodes, prevSibling)
                                       ELSE firstChild(s.childNodes, parent)),
             callId, childrenRequested)

\* setOuterHTML() after htmlElement->setOuterHTML(outerHTML, ec): the failure is
\* reported and the function goes on.
setOuterHTMLReplaced(s, callId, childrenRequested, prevSibling, parent) ==
    setOuterHTMLPush(IF s.ec # 0 THEN call(s, "didSetOuterHTML", <<callId, 0>>) ELSE s,
                     callId, childrenRequested, prevSibling, parent)

\* setOuterHTML(); every element of the model is an HTML element.
setOuterHTML(s, callId, nodeId, outerHTML, refused) ==
    IF nodeForId(s, nodeId) = NULL \/ nodeType(nodeForId(s, nodeId)) # ELEMENT_NODE
    THEN call(s, "didSetOuterHTML", <<callId, 0>>)
    ELSE setOuterHTMLReplaced(
             elementSetOuterHTML(s, nodeForId(s, nodeId), outerHTML, refused),
             callId, nodeId \in s.m_childrenRequested,
             previousSibling(s.childNodes, nodeForId(s, nodeId)),
             parentNode(s.childNodes, nodeForId(s, nodeId)))

\* setTextNodeValue() that does not test the type of the node.
setTextNodeValueOfAnyNode(s, callId, nodeId, value, refused) ==
    IF nodeForId(s, nodeId) # NULL
    THEN didApplyDomChange(replaceWholeText(s, nodeForId(s, nodeId), value, refused), callId)
    ELSE call(s, "didApplyDomChange", <<callId, FALSE>>)

\* setTextNodeValue()
setTextNodeValue(s, callId, nodeId, value, refused) ==
    IF nodeForId(s, nodeId) # NULL /\ nodeType(nodeForId(s, nodeId)) = TEXT_NODE
    THEN didApplyDomChange(replaceWholeText(s, nodeForId(s, nodeId), value, refused), callId)
    ELSE call(s, "didApplyDomChange", <<callId, FALSE>>)

\* String::split(','), empty entries dropped: `token` is the entry being read.
RECURSIVE splitFrom(_, _)
splitFrom(str, token) ==
    IF str = <<>> THEN (IF token = <<>> THEN <<>> ELSE <<token>>)
    ELSE IF Head(str) = ","
    THEN (IF token = <<>> THEN <<>> ELSE <<token>>) \o splitFrom(Tail(str), <<>>)
    ELSE splitFrom(Tail(str), Append(token, Head(str)))

split(str) == splitFrom(str, <<>>)

Digits == <<"0", "1", "2", "3", "4", "5", "6", "7", "8", "9">>

\* String::toUInt(&success): the number, or -1 for no success.
RECURSIVE toUIntFrom(_, _)
toUIntFrom(str, value) ==
    IF str = <<>> THEN value
    ELSE IF Head(str) \notin Range(Digits) THEN -1
    ELSE toUIntFrom(Tail(str), 10 * value + IndexOf(Digits, Head(str)) - 1)

toUInt(str) == IF str = <<>> THEN -1 ELSE toUIntFrom(str, 0)

\* Node::nodeName(); the model's alphabet has one case.
nodeName(n) ==
    IF nodeType(n) = ELEMENT_NODE THEN tagName(n)
    ELSE IF nodeType(n) = TEXT_NODE THEN <<"#", "t", "e", "x", "t">>
    ELSE <<"#", "d", "o", "c", "u", "m", "e", "n", "t">>

\* The loop of nodeForPath() over the pairs (child number, child name) left.
RECURSIVE nodeForPathFrom(_, _, _)
nodeForPathFrom(t, node, pathTokens) ==
    IF Len(pathTokens) < 2 THEN node
    ELSE IF toUInt(pathTokens[1]) < 0 THEN NULL
    ELSE IF toUInt(pathTokens[1]) >= innerChildNodeCount(t, node) THEN NULL
    ELSE IF nodeName(innerChildren(t, node)[toUInt(pathTokens[1]) + 1]) # pathTokens[2]
    THEN NULL
    ELSE nodeForPathFrom(t, innerChildren(t, node)[toUInt(pathTokens[1]) + 1],
                         Tail(Tail(pathTokens)))

\* nodeForPath()
nodeForPath(s, path) ==
    IF mainFrameDocument(s) = NULL THEN NULL
    ELSE IF split(path) = <<>> THEN NULL
    ELSE nodeForPathFrom(s.childNodes, mainFrameDocument(s), split(path))

\* The end of pushNodeByPathToFrontend(): s.ret is the id to report.
didPushNodeByPathToFrontend(s, callId) ==
    call(s, "didPushNodeByPathToFrontend", <<callId, s.ret>>)

\* pushNodeByPathToFrontend(), m_frontend being set.
pushNodeByPathToFrontend(s, callId, path) ==
    didPushNodeByPathToFrontend(
        IF nodeForPath(s, path) = NULL THEN [s EXCEPT !.ret = 0]
        ELSE pushNodePathToFrontend(s, nodeForPath(s, path)),
        callId)

----------------------------------------------------------------------------
(* The state machine. *)

\* The members and the tree as the record the handlers work on, at the start of a handler.
State ==
    [childNodes |-> childNodes,
     elementAttributes |-> elementAttributes,
     characterData |-> characterData,
     m_documents |-> m_documents,
     m_documentNodeToIdMap |-> m_documentNodeToIdMap,
     m_idToNode |-> m_idToNode,
     m_idToNodesMap |-> m_idToNodesMap,
     m_danglingNodeToIdMaps |-> m_danglingNodeToIdMaps,
     m_childrenRequested |-> m_childrenRequested,
     m_inspectedNodes |-> m_inspectedNodes,
     m_lastNodeId |-> m_lastNodeId,
     m_pendingMatchJobs |-> m_pendingMatchJobs,
     m_searchResults |-> m_searchResults,
     m_matchJobsTimer |-> m_matchJobsTimer,
     frontend |-> <<>>,
     reported |-> <<>>,
     issued |-> issued,
     ret |-> 0,
     ec |-> 0,
     crashed |-> FALSE]

\* The handler's result fits the bounds of the model.
WithinBounds(r) ==
    /\ r.m_lastNodeId <= MaxId + 1
    /\ Len(r.m_danglingNodeToIdMaps) <= MaxDangling

\* The state after a handler that left the agent as r and the tree as t, the
\* search in progress having reported the nodes of `found` so far and `made`
\* mutations having been made.
CommitAll(r, t, found, made) ==
    /\ WithinBounds(r)
    /\ searchReported' = found
    /\ childNodes' = t
    /\ elementAttributes' = r.elementAttributes
    /\ characterData' = r.characterData
    /\ m_documents' = r.m_documents
    /\ m_documentNodeToIdMap' = r.m_documentNodeToIdMap
    /\ m_idToNode' = r.m_idToNode
    /\ m_idToNodesMap' = r.m_idToNodesMap
    /\ m_danglingNodeToIdMaps' = r.m_danglingNodeToIdMaps
    /\ m_childrenRequested' = r.m_childrenRequested
    /\ m_inspectedNodes' = r.m_inspectedNodes
    /\ m_lastNodeId' = r.m_lastNodeId
    /\ m_pendingMatchJobs' = r.m_pendingMatchJobs
    /\ m_searchResults' = r.m_searchResults
    /\ m_matchJobsTimer' = r.m_matchJobsTimer
    /\ issued' = r.issued
    /\ mutations' = made

\* The state after a handler of the agent's search or of the page's own changes:
\* a change of the tree counts as one mutation.
CommitSearch(r, t, found) ==
    CommitAll(r, t, found, IF t = childNodes THEN mutations ELSE mutations + 1)

\* The state after a handler that is no part of a search.
Commit(r, t) == CommitSearch(r, t, searchReported)

\* The trees the page may start with.  Without the frame: <div><span>x</span></div>
\* in the main document, the frame not yet inserted.  With the frame: the frame is
\* the child of the div and <span>x</span> is a subtree outside the document.  The
\* frame's document holds one element; the whitespace text is not yet inserted.
InitialTree(withFrame) ==
    [n \in AnyNode |->
        CASE n = "doc" -> <<"div">>
          [] n = "div" -> IF withFrame THEN <<"frame">> ELSE <<"span">>
          [] n = "span" -> <<"txt">>
          [] n = "doc2" -> <<"inner">>
          [] OTHER -> <<>>]

Init ==
    /\ childNodes \in {InitialTree(FALSE), InitialTree(TRUE)}
    /\ elementAttributes = [n \in AnyNode |-> markupAttributes(n)]
    /\ characterData = [n \in AnyNode |-> markupData(n)]
    /\ m_documents = <<>>
    /\ m_documentNodeToIdMap = EmptyMap
    /\ m_idToNode = EmptyMap
    /\ m_idToNodesMap = EmptyMap
    /\ m_danglingNodeToIdMaps = <<>>
    /\ m_childrenRequested = {}
    /\ m_inspectedNodes = <<>>
    /\ m_lastNodeId = 1
    /\ m_pendingMatchJobs = <<>>
    /\ m_searchResults = <<>>
    /\ m_matchJobsTimer = TimerStopped
    /\ mutations = 0
    /\ issued = <<>>
    /\ searchReported = {}

\* Node::document() of a node in the tree: the document at the top of its parent chain.
RECURSIVE rootOf(_, _)
rootOf(t, n) ==
    IF parentNode(t, n) = NULL THEN n ELSE rootOf(t, parentNode(t, n))

InsertAt(seq, i, x) == SubSeq(seq, 1, i) \o <<x>> \o SubSeq(seq, i + 1, Len(seq))

\* InspectorController::setDocument / a navigation of the main frame.
SetDocument ==
    \E doc \in {"doc", NULL} :
        LET r == setDocument(State, doc)
        IN  CommitSearch(r, childNodes,
                         IF doc = mainFrameDocument(State) THEN searchReported ELSE {})

\* DOMContentLoaded dispatched at a document the agent listens to.
DOMContentLoaded ==
    \E doc \in Range(m_documents) :
        LET r == handleEvent(State, "DOMContentLoaded", doc)
        IN  Commit(r, childNodes)

\* A load event of a frame owner, captured at a document the agent listens to.
LoadEvent ==
    \E node \in Node :
        /\ isFrameOwnerElement(node)
        /\ rootOf(childNodes, node) \in Range(m_documents)
        /\ LET r == handleEvent(State, "load", node)
           IN  Commit(r, childNodes)

\* The front-end asks for the children of an id.
GetChildNodes ==
    \E nodeId \in 0..MaxId :
        LET r == getChildNodes(State, 1, nodeId)
        IN  Commit(r, childNodes)

\* pushNodePathToFrontend() of any node.
PushNodePath ==
    \E node \in Node :
        LET r == pushNodePathToFrontend(State, node)
        IN  Commit(r, childNodes)

\* The page inserts a parentless node, having made fewer than `budget` mutations; the
\* tree calls didInsertDOMNode() once the node is in place.
InsertChildWithin(budget) ==
    \E node \in Node :
        \E parent \in AllowedParent(node) :
            \E i \in 0..Len(childNodes[parent]) :
                /\ mutations < budget
                /\ parentNode(childNodes, node) = NULL
                /\ LET t == [childNodes EXCEPT ![parent] = InsertAt(@, i, node)]
                       r == didInsertDOMNode([State EXCEPT !.childNodes = t], node)
                   IN  Commit(r, t)

InsertChild == InsertChildWithin(MaxMutations)

\* The page removes a node, having made fewer than `budget` mutations; the tree calls
\* didRemoveDOMNode() while the node is still a child of its parent (the handler
\* reads node->parentNode()).
RemoveChildWithin(budget) ==
    \E node \in Node :
        /\ mutations < budget
        /\ parentNode(childNodes, node) # NULL
        /\ LET parent == parentNode(childNodes, node)
               r == didRemoveDOMNode(State, node)
               t == [childNodes EXCEPT ![parent] = RemoveFromSeq(@, node)]
           IN  Commit(r, t)

RemoveChild == RemoveChildWithin(MaxMutations)

\* The mutations of the page while a search may be in progress.
InsertChildInSearch == InsertChildWithin(MaxSearchMutations)

RemoveChildInSearch == RemoveChildWithin(MaxSearchMutations)

\* The queries the front-end searches for.
Queries == {<<"a">>, <<"b">>, AllTextQuery}

\* The front-end starts a search.
PerformSearch ==
    \E query \in Queries :
        \E runSynchronously \in BOOLEAN :
            /\ mainFrameDocument(State) # NULL
            /\ LET r == performSearch(State, query, runSynchronously)
               IN  CommitSearch(r, childNodes, {})

\* The timer of the search fires.
MatchJobsTimer ==
    /\ m_matchJobsTimer.active
    /\ \E r \in {onMatchJobsTimer(State)} :
           CommitSearch(r, childNodes,
                        IF m_pendingMatchJobs = <<>> THEN {}
                        ELSE searchReported \cup Range(r.reported[1]))

\* The front-end cancels the search.
SearchCanceled ==
    LET r == searchCanceled(State)
    IN  CommitSearch(r, childNodes, {})

\* The front-end tells which node it inspects.
AddInspectedNode ==
    \E nodeId \in {1} :
        /\ m_inspectedNodes = <<>>
        /\ LET r == addInspectedNode(State, nodeId)
           IN  Commit(r, childNodes)

Next ==
    \/ SetDocument
    \/ DOMContentLoaded
    \/ LoadEvent
    \/ GetChildNodes
    \/ PushNodePath
    \/ InsertChild
    \/ RemoveChild

Spec == Init /\ [][Next]_vars

\* The agent with its search: the entry points of the search, and those of Next
\* that bind and unbind nodes while a search is in progress.
SearchNext ==
    \/ SetDocument
    \/ DOMContentLoaded
    \/ PushNodePath
    \/ InsertChildInSearch
    \/ RemoveChildInSearch
    \/ PerformSearch
    \/ MatchJobsTimer
    \/ SearchCanceled
    \/ AddInspectedNode

SearchSpec == Init /\ [][SearchNext]_vars

\* No node of the tree, no member of the agent refers to n: createElement() or
\* the parser may hand it out as a new element.
Unused(s, n) ==
    /\ parentNode(s.childNodes, n) = NULL
    /\ s.childNodes[n] = <<>>
    /\ s.elementAttributes[n] = <<>>
    /\ \A id \in DOMAIN s.m_idToNode : s.m_idToNode[id] # n
    /\ \A ref \in 0..Len(s.m_danglingNodeToIdMaps) : get(mapOf(s, ref), n) = 0
    /\ n \notin Range(s.m_searchResults)

\* The state after an edit of the front-end that returned; an edit that changed
\* the DOM counts as one mutation.
CommitEdit(r) ==
    /\ ~r.crashed
    /\ mutations < MaxEdits
    /\ CommitAll(r, r.childNodes, searchReported,
                 IF /\ r.childNodes = childNodes
                    /\ r.elementAttributes = elementAttributes
                    /\ r.characterData = characterData
                 THEN mutations ELSE mutations + 1)

\* The ids and the inputs the front-end sends with its edits.
AttributeNames == {<<"i", "d">>, <<>>}
AttributeValues == {<<"b">>}
TagNames == {<<"e", "m">>, <<>>}
Markups == {CreatedMarkup, <<>>}
TextValues == {<<"y">>, <<" ">>, <<>>}
Paths == {<<>>, <<"0">>, <<"0", ",", "d", "i", "v">>, <<"1", ",", "d", "i", "v">>,
          <<"0", ",", "d", "i", "v", ",", "0", ",", "b">>,
          <<"0", ",", "d", "i", "v", ",", "0", ",", "e", "m">>,
          <<"x", ",", "d", "i", "v">>}

SetAttribute ==
    \E elementId \in 0..MaxId, name \in AttributeNames, value \in AttributeValues,
       refused \in BOOLEAN :
        CommitEdit(setAttribute(State, 7, elementId, name, value, refused))

RemoveAttribute ==
    \E elementId \in 0..MaxId, name \in AttributeNames, refused \in BOOLEAN :
        CommitEdit(removeAttribute(State, 7, elementId, name, refused))

RemoveNode ==
    \E nodeId \in 0..MaxId, refused \in BOOLEAN :
        CommitEdit(removeNode(State, 7, nodeId, refused))

ChangeTagName ==
    \E nodeId \in 0..MaxId, name \in TagNames, refusedInsert \in BOOLEAN,
       refusedRemove \in BOOLEAN :
        /\ \A n \in CreatedNode : Unused(State, n)
        /\ CommitEdit(changeTagName(State, 7, nodeId, name, refusedInsert, refusedRemove))

SetOuterHTML ==
    \E nodeId \in 0..MaxId, outerHTML \in Markups, refused \in BOOLEAN :
        /\ \A n \in CreatedNode : Unused(State, n)
        /\ CommitEdit(setOuterHTML(State, 7, nodeId, outerHTML, refused))

SetTextNodeValue ==
    \E nodeId \in 0..MaxId, value \in TextValues, refused \in BOOLEAN :
        CommitEdit(setTextNodeValue(State, 7, nodeId, value, refused))

PushNodeByPath ==
    \E path \in Paths :
        CommitEdit(pushNodeByPathToFrontend(State, 7, path))

\* The agent with the edits of the front-end.
EditNext ==
    \/ SetDocument
    \/ GetChildNodes
    \/ SetAttribute
    \/ RemoveAttribute
    \/ RemoveNode
    \/ ChangeTagName
    \/ SetOuterHTML
    \/ SetTextNodeValue
    \/ PushNodeByPath

EditSpec == Init /\ [][EditNext]_vars

----------------------------------------------------------------------------
(* Vocabulary of the properties. *)

\* The identity maps: 0 is the live map, k > 0 the k-th detached map.
MapRefs(s) == 0..Len(s.m_danglingNodeToIdMaps)

\* The ids that resolve through the Global Index.
Resolvable(s) == DOMAIN s.m_idToNode

\* The maps that bind node n to id.
BindersOf(s, id, n) == {ref \in MapRefs(s) : get(mapOf(s, ref), n) = id}

\* The parent of a node in the observer's view: the frame owner for the top-level
\* nodes of a frame's document, the native parent otherwise.
visibleParent(t, n) ==
    LET p == parentNode(t, n) IN
    IF p # NULL /\ nodeType(p) = DOCUMENT_NODE /\ ownerElement(p) # NULL
    THEN ownerElement(p)
    ELSE p

\* The children of a node in the observer's view.
visibleChildren(t, n) ==
    IF isFrameOwnerElement(n) /\ contentDocument(n) # NULL
    THEN t[contentDocument(n)]
    ELSE SelectSeq(t[n], LAMBDA c : ~isWhitespace(c))

RECURSIVE visibleDescendants(_, _)
visibleDescendants(t, n) ==
    LET cs == Range(visibleChildren(t, n))
    IN  cs \cup UNION {visibleDescendants(t, c) : c \in cs}

RECURSIVE visibleAncestors(_, _)
visibleAncestors(t, n) ==
    LET p == visibleParent(t, n)
    IN  IF p = NULL THEN {} ELSE {p} \cup visibleAncestors(t, p)

----------------------------------------------------------------------------
(* Identity Map and Global Index. *)

\* C1. Global uniqueness: the ids bind() has allocated over the whole run are
\* 1, 2, 3, ... in this order, one per allocation, and the counter is always one
\* past the last of them: no id is allocated twice, 0 is never allocated, and the
\* counter is never reset (not by unbind, a re-push or a full reset).  Every id
\* bound in a map or resolvable is one of them.
C1_GlobalUniqueness ==
    /\ Len(issued) = m_lastNodeId - 1
    /\ \A i \in 1..Len(issued) : issued[i] = i
    /\ Resolvable(State) \subseteq Range(issued)
    /\ \A ref \in MapRefs(State) :
           \A n \in DOMAIN mapOf(State, ref) : mapOf(State, ref)[n] \in Range(issued)

\* Ids were allocated, all bindings were then discarded, and a new id was
\* allocated after that.
C1_Witness ==
    /\ Len(issued) >= 2
    /\ 1 \notin Resolvable(State)
    /\ \E id \in Resolvable(State) : id > 1

\* C2. Binding idempotence: from every reachable state, for every node and
\* every map, a second bind() right after a first one returns the same id and
\* leaves the counter, the map and the Global Index as the first call left them.
C2_BindIdempotent ==
    \A n \in Node :
        \A ref \in MapRefs(State) :
            LET r1 == bind(State, n, ref)
                r2 == bind(r1, n, ref)
            IN  /\ r2.ret = r1.ret
                /\ r2.m_lastNodeId = r1.m_lastNodeId
                /\ mapOf(r2, ref) = mapOf(r1, ref)
                /\ r2.m_idToNode = r1.m_idToNode
                /\ r2.m_idToNodesMap = r1.m_idToNodesMap

\* A node bound in the live map whose parent's children were pushed afterwards:
\* pushChildNodesToFrontend() has called bind() on it a second time; and a
\* detached map exists as well.
C2_Witness ==
    /\ m_danglingNodeToIdMaps # <<>>
    /\ \E n \in DOMAIN m_documentNodeToIdMap :
           /\ get(m_documentNodeToIdMap, parentNode(childNodes, n)) \in m_childrenRequested
           /\ bind(State, n, 0).ret = m_documentNodeToIdMap[n]

\* C3. The Global Index and the identity maps agree: an id resolves to node n
\* if and only if exactly one identity map (the live map or a detached map)
\* binds n to that id.
C3_IndexAgreesWithMaps ==
    \A id \in 1..m_lastNodeId :
        \A n \in Node :
            (nodeForId(State, id) = n) <=> (Cardinality(BindersOf(State, id, n)) = 1)

\* Bindings exist in the live map and in a detached map, and an id allocated
\* earlier has been unbound.
C3_Witness ==
    /\ m_documentNodeToIdMap # EmptyMap
    /\ \E k \in 1..Len(m_danglingNodeToIdMaps) : m_danglingNodeToIdMaps[k] # EmptyMap
    /\ \E id \in Range(issued) :
           /\ id \notin Resolvable(State)
           /\ \E id2 \in Resolvable(State) : id2 < id

\* C4. Unbind transitivity: for a node P bound in the live map whose children
\* are disclosed, after unbind(P, live map) neither P nor any descendant of P in
\* the visible-child view is bound in the live map, and no id owned by the live
\* map resolves to one of them.
C4_UnbindTransitive ==
    \A P \in DOMAIN m_documentNodeToIdMap :
        m_documentNodeToIdMap[P] \in m_childrenRequested =>
            LET r == unbind(State, P, 0) IN
            \A d \in {P} \cup visibleDescendants(childNodes, P) :
                /\ get(r.m_documentNodeToIdMap, d) = 0
                /\ \A id \in Resolvable(r) :
                       r.m_idToNode[id] = d => get(r.m_idToNodesMap, id) # 0

\* C5. No dangling ids: every node with an id in the live map is the main
\* scope root or has its visible parent bound in the live map.
C5_NoDanglingIds ==
    \A n \in DOMAIN m_documentNodeToIdMap :
        \/ n = mainFrameDocument(State)
        \/ get(m_documentNodeToIdMap, visibleParent(childNodes, n)) # 0

----------------------------------------------------------------------------
(* pushNodePathToFrontend. *)

\* The node is connected to the main scope root in the observer's view.
ConnectedToMain(s, n) ==
    /\ mainFrameDocument(s) # NULL
    /\ \/ n = mainFrameDocument(s)
       \/ mainFrameDocument(s) \in visibleAncestors(s.childNodes, n)

\* The calls of the given name among the calls a handler made.
CallsNamed(r, name) == SelectSeq(r.frontend, LAMBDA c : c.call = name)

\* C6. pushPath guarantee, for a main scope root that is set and a node that is
\* not whitespace-only text: after pushNodePathToFrontend(node) the returned id
\* is non-zero, resolves to node, and some identity map binds node to it.
C6_PushPathGuarantee ==
    \A node \in Node :
        (mainFrameDocument(State) # NULL /\ ~isWhitespace(node)) =>
            LET r == pushNodePathToFrontend(State, node) IN
            /\ r.ret # 0
            /\ nodeForId(r, r.ret) = node
            /\ BindersOf(r, r.ret, node) # {}

\* C7. Detached push, for a main scope root that is set and a node that is not
\* whitespace-only text: pushNodePathToFrontend() of a node with no ancestor path
\* back to the main scope root emits exactly one setDetachedRoot and returns an
\* id that is not bound in the live map and was never issued before.
C7_DetachedPush ==
    \A node \in Node :
        (/\ mainFrameDocument(State) # NULL
         /\ ~isWhitespace(node)
         /\ ~ConnectedToMain(State, node)) =>
            LET r == pushNodePathToFrontend(State, node) IN
            /\ Len(CallsNamed(r, "setDetachedRoot")) = 1
            /\ r.ret # 0
            /\ \A n \in DOMAIN r.m_documentNodeToIdMap : r.m_documentNodeToIdMap[n] # r.ret
            /\ r.ret \notin Range(issued)

\* C8. For every node that is connected to the main scope root and is not
\* whitespace-only text, pushNodePathToFrontend() binds it in the live map,
\* allocates no detached map and emits no setDetachedRoot.
C8_ConnectedPushIsLive ==
    \A node \in Node :
        (ConnectedToMain(State, node) /\ ~isWhitespace(node)) =>
            LET r == pushNodePathToFrontend(State, node) IN
            /\ CallsNamed(r, "setDetachedRoot") = <<>>
            /\ Len(r.m_danglingNodeToIdMaps) = Len(m_danglingNodeToIdMaps)
            /\ get(r.m_documentNodeToIdMap, node) # 0

----------------------------------------------------------------------------
(* Mutation notifications. *)

\* The last element of a sequence, NULL for the empty one.
LastOrNull(seq) == IF seq = <<>> THEN NULL ELSE seq[Len(seq)]

\* The outcome of didInsertDOMNode(node) once the page has put the parentless
\* node under parent, after the first i children, is as C9 says.
InsertSignalAsClaimed(node, parent, i) ==
    LET t == [childNodes EXCEPT ![parent] = InsertAt(@, i, node)]
        r == didInsertDOMNode([State EXCEPT !.childNodes = t], node)
        parentId == get(m_documentNodeToIdMap, parent)
        prev == LastOrNull(SelectSeq(SubSeq(t[parent], 1, i), LAMBDA c : ~isWhitespace(c)))
    IN
    IF parentId = 0 THEN r.frontend = <<>>
    ELSE IF parentId \notin m_childrenRequested
    THEN r.frontend = <<[call |-> "childNodeCountUpdated",
                         args |-> <<parentId, Len(visibleChildren(t, parent))>>]>>
    ELSE /\ Len(r.frontend) = 1
         /\ r.frontend[1].call = "childNodeInserted"
         /\ LET a == r.frontend[1].args IN
            /\ a[1] = parentId
            /\ a[2] = (IF prev = NULL THEN 0 ELSE get(r.m_documentNodeToIdMap, prev))
            /\ (a[2] = 0) <=> (prev = NULL)
            /\ a[3].id # 0
            /\ a[3].id = get(r.m_documentNodeToIdMap, node)

C11_RemoveUndisclosed ==
    \A node \in Node :
        LET parent == parentNode(childNodes, node)
            parentId == get(m_documentNodeToIdMap, parent)
        IN
        (/\ parent # NULL
         /\ ~isWhitespace(node)
         /\ parentId # 0
         /\ parentId \notin m_childrenRequested) =>
            LET r == didRemoveDOMNode(State, node) IN
            IF Len(visibleChildren(childNodes, parent)) = 1
            THEN r.frontend = <<[call |-> "childNodeCountUpdated", args |-> <<parentId, 0>>]>>
            ELSE r.frontend = <<>>

\* The page can remove the only visible child, which has a whitespace sibling,
\* of a bound parent whose children are not disclosed.
C11_Witness ==
    /\ mutations < MaxMutations
    /\ \E node \in Node :
           LET parent == parentNode(childNodes, node) IN
           /\ parent # NULL
           /\ ~isWhitespace(node)
           /\ get(m_documentNodeToIdMap, parent) # 0
           /\ get(m_documentNodeToIdMap, parent) \notin m_childrenRequested
           /\ Len(childNodes[parent]) = 2
           /\ Len(didRemoveDOMNode(State, node).frontend) = 1

----------------------------------------------------------------------------
(* Lazy disclosure. *)

\* The record serializes no children beyond the depth-0 case: none, or the sole
\* visible child when that child is a text node.
ChildrenAtDepthZero(rec) ==
    \/ rec.children = <<>>
    \/ /\ rec.childNodeCount = 1
       /\ Len(rec.children) = 1
       /\ rec.children[1].nodeType = TEXT_NODE

\* The calls a handler made, the replies to the front-end's own commands left out.
Records(r) == SelectSeq(r.frontend, LAMBDA c : c.call # "didGetChildNodes")

\* C12. Lazy disclosure: setDocument(root), root having children and not being
\* the current main scope root, emits one setDocument whose record carries the
\* visible child count and serializes no children beyond the depth-0 case, and
\* emits no setChildNodes and discloses no id.
C12_LazyDisclosure ==
    (mainFrameDocument(State) # "doc" /\ childNodes["doc"] # <<>>) =>
        LET r == setDocument(State, "doc") IN
        /\ Len(Records(r)) = 1
        /\ r.frontend[1].call = "setDocument"
        /\ r.frontend[1].args[1].childNodeCount = Len(visibleChildren(childNodes, "doc"))
        /\ ChildrenAtDepthZero(r.frontend[1].args[1])
        /\ r.m_childrenRequested = {}

\* C13. End-to-end scenario: for the main document doc > div > span > text "x"
\* and an agent with no main scope root, setDocument(doc), getChildNodes(rootId),
\* getChildNodes(divId) emit, in order, setDocument (the description of div in it
\* serializing no children), setChildNodes(rootId, [div]), setChildNodes(divId,
\* [span]); removing the span then emits exactly one childNodeRemoved(divId, spanId).
C13_EndToEnd ==
    (childNodes = InitialTree(FALSE) /\ m_documents = <<>> /\ m_lastNodeId + 3 <= MaxId) =>
        LET r1 == setDocument(State, "doc")
            rootId == get(r1.m_documentNodeToIdMap, "doc")
            r2 == getChildNodes(r1, 1, rootId)
            divId == get(r2.m_documentNodeToIdMap, "div")
            r3 == getChildNodes(r2, 2, divId)
            spanId == get(r3.m_documentNodeToIdMap, "span")
            r4 == didRemoveDOMNode([r3 EXCEPT !.frontend = <<>>], "span")
            out == Records(r3)
        IN
        /\ rootId # 0 /\ divId # 0 /\ spanId # 0
        /\ Len(out) = 3
        /\ out[1].call = "setDocument"
        /\ out[1].args[1].id = rootId
        /\ \A i \in 1..Len(out[1].args[1].children) :
               /\ out[1].args[1].children[i].id = divId
               /\ out[1].args[1].children[i].children = <<>>
        /\ out[2].call = "setChildNodes"
        /\ out[2].args[1] = rootId
        /\ Len(out[2].args[2]) = 1 /\ out[2].args[2][1].id = divId
        /\ out[3].call = "setChildNodes"
        /\ out[3].args[1] = divId
        /\ Len(out[3].args[2]) = 1 /\ out[3].args[2][1].id = spanId
        /\ r4.frontend = <<[call |-> "childNodeRemoved", args |-> <<divId, spanId>>]>>

----------------------------------------------------------------------------
(* Whitespace. *)

\* The ids of a record and of the records serialized in it.
RECURSIVE RecordIds(_)
RecordIds(rec) ==
    {rec.id} \cup UNION {RecordIds(rec.children[i]) : i \in 1..Len(rec.children)}

\* The ids of the records in the arguments of the calls a handler made (a handler
\* that pushes records, not the setDocument(null) of a navigation away).
EmittedIds(r) ==
    UNION {IF c.call \in {"setDocument", "setDetachedRoot"}
           THEN RecordIds(c.args[1])
           ELSE IF c.call = "setChildNodes"
           THEN UNION {RecordIds(c.args[2][i]) : i \in 1..Len(c.args[2])}
           ELSE IF c.call = "childNodeInserted"
           THEN RecordIds(c.args[3])
           ELSE {} : c \in Range(r.frontend)}

\* No record of the handler's calls describes a whitespace-only text node.
NoWhitespaceRecord(r) ==
    \A id \in EmittedIds(r) : ~isWhitespace(nodeForId(r, id))

\* C14. Whitespace invariance: in every reachable state no identity map binds
\* a whitespace-only text node and no id resolves to one; and no record emitted
\* by pushChildNodesToFrontend() or pushNodePathToFrontend() describes one.
C14_WhitespaceInvariance ==
    /\ \A ref \in MapRefs(State) :
           \A n \in Node : isWhitespace(n) => get(mapOf(State, ref), n) = 0
    /\ \A id \in Resolvable(State) : ~isWhitespace(m_idToNode[id])
    /\ \A id \in Resolvable(State) : NoWhitespaceRecord(getChildNodes(State, 1, id))
    /\ \A n \in Node : NoWhitespaceRecord(pushNodePathToFrontend(State, n))

----------------------------------------------------------------------------
(* Disclosure Tracker and the events of the documents. *)

\* C15. Disclosure monotonicity: an id leaves m_childrenRequested only in a
\* step after which it does not resolve any more (its node was unbound, or all
\* bindings were discarded).
C15_DisclosureMonotonic ==
    [][\A id \in m_childrenRequested :
           id \notin m_childrenRequested' => id \notin DOMAIN m_idToNode']_vars

\* C16. A load event of a live-bound frame owner whose children were disclosed
\* unbinds its subtree: after handleEvent() the ids its visible children held
\* before the event do not resolve.
C16_LoadUnbindsSubtree ==
    \A node \in DOMAIN m_documentNodeToIdMap :
        (/\ isFrameOwnerElement(node)
         /\ m_documentNodeToIdMap[node] \in m_childrenRequested) =>
            LET r == handleEvent(State, "load", node) IN
            \A c \in Range(visibleChildren(childNodes, node)) :
                get(m_documentNodeToIdMap, c) # 0 =>
                    nodeForId(r, get(m_documentNodeToIdMap, c)) = NULL

\* C17. DOMContentLoaded at any document the agent listens to discards all
\* prior bindings: no id issued before the event resolves or is bound in the
\* live map or a detached map after it, m_childrenRequested is empty, and
\* exactly one setDocument is emitted, its record describing the main document.
C17_ContentReady ==
    \A doc \in Range(m_documents) :
        LET r == handleEvent(State, "DOMContentLoaded", doc) IN
        /\ Resolvable(r) \cap Range(issued) = {}
        /\ \A ref \in MapRefs(r) :
               \A n \in Node : get(mapOf(r, ref), n) \notin Range(issued)
        /\ r.m_childrenRequested = {}
        /\ Len(r.frontend) = 1
        /\ r.frontend[1].call = "setDocument"
        /\ nodeForId(r, r.frontend[1].args[1].id) = mainFrameDocument(State)

\* DOMContentLoaded can arrive at the frame's document while ids are bound in
\* the live map and in a detached map and children are disclosed.
C17_Witness ==
    /\ "doc2" \in Range(m_documents)
    /\ m_childrenRequested # {}
    /\ \E k \in 1..Len(m_danglingNodeToIdMaps) : m_danglingNodeToIdMaps[k] # EmptyMap
    /\ handleEvent(State, "DOMContentLoaded", "doc2").m_lastNodeId > m_lastNodeId

----------------------------------------------------------------------------
(* Full reset and search. *)

\* Everything a full reset discards is gone from r, the agent having been `before`.
FullyReset(before, r) ==
    /\ Resolvable(r) \cap Range(before.issued) = {}
    /\ r.m_childrenRequested = {}
    /\ r.m_inspectedNodes = <<>>
    /\ r.m_danglingNodeToIdMaps = <<>>
    /\ r.m_pendingMatchJobs = <<>>
    /\ r.m_searchResults = <<>>
    /\ ~r.m_matchJobsTimer.active
    /\ Range(r.m_documents) \cap Range(before.m_documents) = {}

\* C18. Full reset: after reset(), and after setDocument(doc) with doc not the
\* current main scope root, no id issued before the call resolves,
\* m_childrenRequested, m_inspectedNodes, the detached maps, m_pendingMatchJobs
\* and m_searchResults are empty, the timer is stopped, and no document the
\* agent listened to before the call is listened to.
C18_FullReset ==
    /\ FullyReset(State, reset(State))
    /\ \A doc \in {"doc", NULL} :
           doc # mainFrameDocument(State) => FullyReset(State, setDocument(State, doc))

\* The main scope root can be replaced while a search is in progress that has
\* reported nodes and has jobs pending, with disclosed children, a detached map,
\* an inspected node and two documents listened to.
C18_Witness ==
    /\ mainFrameDocument(State) # NULL
    /\ m_matchJobsTimer.active
    /\ m_pendingMatchJobs # <<>>
    /\ m_searchResults # <<>>
    /\ m_childrenRequested # {}
    /\ m_danglingNodeToIdMaps # <<>>
    /\ m_inspectedNodes # <<>>
    /\ Len(m_documents) = 2
    /\ setDocument(State, NULL).frontend # <<>>

\* The query of the search in progress: the last job performSearch() queues for
\* a document carries the query as the front-end typed it.
LastJob == m_pendingMatchJobs[Len(m_pendingMatchJobs)]

\* All the nodes the jobs of a search for `query` match in the tree as it is.
AllMatches(s, query) ==
    Range(matchEach(s.childNodes,
                    jobsForEach(frameDocuments(s.childNodes, mainFrameDocument(s)), query),
                    <<>>))

\* The nodes in the addNodesToSearchResult calls a handler made.
ReportedNodes(r) == UNION {Range(r.reported[i]) : i \in 1..Len(r.reported)}

\* C19 as stated: running the query of the search in progress a second time,
\* without a cancel in between, reports no node the search has reported already.
C19_SameQueryTwice ==
    (/\ mainFrameDocument(State) # NULL
     /\ m_pendingMatchJobs # <<>>
     /\ LastJob.kind = "XPath") =>
        ReportedNodes(performSearch(State, LastJob.query, TRUE)) \cap searchReported = {}

\* C19, amended. Search de-duplication: a tick of the search in progress
\* reports no node that search has reported already; every performSearch(), like
\* searchCanceled(), clears m_searchResults first, so that a search started next
\* reports every node its jobs match, the nodes reported before included.
C19_Dedup ==
    /\ (m_matchJobsTimer.active /\ m_pendingMatchJobs # <<>>) =>
           ReportedNodes(onMatchJobsTimer(State)) \cap searchReported = {}
    /\ searchCanceled(State).m_searchResults = <<>>
    /\ \A query \in Queries :
           mainFrameDocument(State) # NULL =>
               /\ ReportedNodes(performSearch(State, query, TRUE)) = AllMatches(State, query)
               /\ ReportedNodes(performSearch(searchCanceled(State), query, TRUE))
                      = AllMatches(State, query)

\* A search in progress has reported a node that its next job matches again.
C19_Witness ==
    /\ m_matchJobsTimer.active
    /\ m_pendingMatchJobs # <<>>
    /\ searchReported \cap Range(match(childNodes, Head(m_pendingMatchJobs))) # {}
    /\ Range(m_searchResults) \cap AllMatches(State, LastJob.query) # {}

\* The place of the first occurrence of x in seq.
FirstIndex(seq, x) == CHOOSE i \in 1..Len(seq) : seq[i] = x /\ \A j \in 1..(i - 1) : seq[j] # x

\* C20. Within one asynchronous search a tick emits one addNodesToSearchResult
\* whose nodes are nodes its job matched, none of them reported by an earlier
\* tick of the same search, none listed twice, in the order the job found them.
C20_TickReportsOnce ==
    (m_matchJobsTimer.active /\ m_pendingMatchJobs # <<>>) =>
        LET r == onMatchJobsTimer(State)
            found == match(childNodes, Head(m_pendingMatchJobs))
        IN
        /\ Len(r.reported) = 1
        /\ Len(CallsNamed(r, "addNodesToSearchResult")) = 1
        /\ Len(CallsNamed(r, "addNodesToSearchResult")[1].args[1]) = Len(r.reported[1])
        /\ LET nodes == r.reported[1] IN
           /\ Range(nodes) = Range(found) \ searchReported
           /\ \A i \in 1..Len(nodes) :
                  \A j \in (i + 1)..Len(nodes) :
                      /\ nodes[i] # nodes[j]
                      /\ FirstIndex(found, nodes[i]) < FirstIndex(found, nodes[j])

\* A search in progress has reported a node, and its next tick reports two more.
C20_Witness ==
    /\ m_matchJobsTimer.active
    /\ m_pendingMatchJobs # <<>>
    /\ searchReported # {}
    /\ Len(onMatchJobsTimer(State).reported[1]) >= 2
    /\ WithinBounds(onMatchJobsTimer(State))

\* The nodes the jobs queued for a query match, each job taken alone.
MatchedBy(s, query) ==
    LET jobs == jobsForEach(frameDocuments(s.childNodes, mainFrameDocument(s)), query)
    IN  UNION {Range(match(s.childNodes, jobs[i])) : i \in 1..Len(jobs)}

\* C21. Synchronous search: performSearch(query, true) emits exactly one
\* addNodesToSearchResult; it carries, for each node some queued job matches, the
\* id that resolves to that node, each once; on return no job is pending,
\* m_searchResults is empty and the timer is not active.
C21_SynchronousSearch ==
    \A query \in Queries :
        mainFrameDocument(State) # NULL =>
            LET r == performSearch(State, query, TRUE)
                calls == CallsNamed(r, "addNodesToSearchResult")
            IN
            /\ Len(calls) = 1
            /\ Len(r.reported) = 1
            /\ Range(r.reported[1]) = MatchedBy(State, query)
            /\ Len(calls[1].args[1]) = Len(r.reported[1])
            /\ \A i \in 1..Len(r.reported[1]) :
                   /\ nodeForId(r, calls[1].args[1][i]) = r.reported[1][i]
                   /\ \A j \in (i + 1)..Len(r.reported[1]) :
                          calls[1].args[1][i] # calls[1].args[1][j]
            /\ r.m_pendingMatchJobs = <<>>
            /\ r.m_searchResults = <<>>
            /\ ~r.m_matchJobsTimer.active

\* C22. Cooperative execution: a tick that finds jobs pending takes the first
\* one off the queue, leaves the others in their order, reports what that job
\* alone matches (less what the search reported already) and arms the timer
\* again with the fixed delay; an asynchronous performSearch() reports nothing
\* itself and arms the timer with delay zero.
C22_CooperativeExecution ==
    /\ (m_matchJobsTimer.active /\ m_pendingMatchJobs # <<>>) =>
           LET r == onMatchJobsTimer(State)
           IN
           /\ r.m_pendingMatchJobs = Tail(m_pendingMatchJobs)
           /\ Len(r.reported) = 1
           /\ Range(r.reported[1])
                  = Range(match(childNodes, Head(m_pendingMatchJobs))) \ Range(m_searchResults)
           /\ r.m_matchJobsTimer = [active |-> TRUE, delay |-> MatchJobsDelay]
    /\ \A query \in Queries :
           mainFrameDocument(State) # NULL =>
               LET r == performSearch(State, query, FALSE)
               IN
               /\ r.m_pendingMatchJobs
                      = jobsForEach(frameDocuments(childNodes, mainFrameDocument(State)), query)
               /\ r.frontend = <<>>
               /\ r.m_matchJobsTimer = [active |-> TRUE, delay |-> 0]

\* A tick has run already; the job now first matches nothing the search has
\* reported, and a job behind it matches a node the first one does not.
C22_Witness ==
    /\ m_matchJobsTimer = [active |-> TRUE, delay |-> MatchJobsDelay]
    /\ Len(m_pendingMatchJobs) >= 2
    /\ Range(match(childNodes, Head(m_pendingMatchJobs))) \ Range(m_searchResults) # {}
    /\ \E i \in 2..Len(m_pendingMatchJobs) :
           Range(match(childNodes, m_pendingMatchJobs[i]))
               \ (Range(match(childNodes, Head(m_pendingMatchJobs))) \cup Range(m_searchResults)) # {}

\* No search is in progress in r: no job pending, nothing in m_searchResults,
\* the timer stopped.
TornDown(r) ==
    /\ r.m_pendingMatchJobs = <<>>
    /\ r.m_searchResults = <<>>
    /\ r.m_matchJobsTimer = TimerStopped

\* The handler that led to r sent no addNodesToSearchResult.
Silent(r) == CallsNamed(r, "addNodesToSearchResult") = <<>>

\* The handler that led to r sent no search result and left no search in progress.
Quiet(r) == TornDown(r) /\ Silent(r)

\* C23. Cancellation is immediate: searchCanceled() and reset() leave no job
\* pending, m_searchResults empty and the timer stopped, and send nothing; from
\* a state without a search in progress no handler other than performSearch()
\* - a late tick, a mutation of the tree, a push, a document event, a change of
\* document - sends addNodesToSearchResult or starts a search; searchCanceled()
\* with no search in progress changes nothing.
C23_CancelImmediate ==
    /\ TornDown(searchCanceled(State)) /\ Silent(searchCanceled(State))
    /\ TornDown(reset(State)) /\ Silent(reset(State))
    /\ Silent(onMatchJobsTimer(searchCanceled(State)))
    /\ TornDown(onMatchJobsTimer(searchCanceled(State)))
    /\ TornDown(State) =>
           /\ searchCanceled(State) = State
           /\ Quiet(onMatchJobsTimer(State))
           /\ Quiet(addInspectedNode(State, 1))
           /\ \A doc \in {"doc", NULL} : Quiet(setDocument(State, doc))
           /\ \A doc \in Range(m_documents) :
                  Quiet(handleEvent(State, "DOMContentLoaded", doc))
           /\ \A node \in Node :
                  /\ Quiet(pushNodePathToFrontend(State, node))
                  /\ parentNode(childNodes, node) # NULL =>
                         /\ Quiet(didInsertDOMNode(State, node))
                         /\ Quiet(didRemoveDOMNode(State, node))

\* A search in progress has reported nodes and its next tick would report one
\* more; canceled now, a late tick reports nothing.
C23_Witness ==
    /\ m_matchJobsTimer.active
    /\ m_searchResults # <<>>
    /\ m_pendingMatchJobs # <<>>
    /\ ~Silent(onMatchJobsTimer(State))
    /\ onMatchJobsTimer(State).reported[1] # <<>>
    /\ Silent(onMatchJobsTimer(searchCanceled(State)))

\* The front-end starts a search while none is in progress.
StartSearch ==
    /\ TornDown(State)
    /\ PerformSearch

\* The document changes while no search is in progress.
SetDocumentIdle ==
    /\ ~m_matchJobsTimer.active
    /\ SetDocument

\* The agent with searches that are neither canceled nor restarted: no
\* searchCanceled(), no reset() and no performSearch() while the timer is armed.
CompletionNext ==
    \/ SetDocumentIdle
    \/ DOMContentLoaded
    \/ PushNodePath
    \/ InsertChildInSearch
    \/ RemoveChildInSearch
    \/ StartSearch
    \/ MatchJobsTimer
    \/ AddInspectedNode

\* The timer can fire: it is armed, and the model has room for the ids of the tick.
TimerCanFire ==
    /\ m_matchJobsTimer.active
    /\ WithinBounds(onMatchJobsTimer(State))

\* The one-shot timer of WebCore fires once armed: the run loop of the thread
\* the agent lives on calls onMatchJobsTimer() when the delay has passed.  This
\* is WF_vars(MatchJobsTimer) written out, TimerCanFire being ENABLED
\* <<MatchJobsTimer>>_vars (a tick always changes the timer or the queue).
TimerFairness == []<>(~TimerCanFire) \/ []<><<MatchJobsTimer>>_vars

CompletionSpec == Init /\ [][CompletionNext]_vars /\ TimerFairness

\* C24. Search completion: a search whose timer is armed and that is neither
\* canceled nor restarted gets, the timer firing, to the state with no job
\* pending, m_searchResults empty and the timer stopped (or to a tick whose ids
\* the model has no room for), and in that state no tick can fire.
C24_SearchCompletes ==
    /\ m_matchJobsTimer.active
           ~> (TornDown(State) \/ (m_matchJobsTimer.active /\ ~TimerCanFire))
    /\ [](TornDown(State) => ~ENABLED MatchJobsTimer)

\* Every job of a search has run and reported; the tick still to come finds the
\* queue empty and tears the search down.
C24_Witness ==
    /\ m_matchJobsTimer = [active |-> TRUE, delay |-> MatchJobsDelay]
    /\ m_pendingMatchJobs = <<>>
    /\ searchReported # {}
    /\ TornDown(onMatchJobsTimer(State))

\* The handler that led from State to r answered call 7 with `result`, did
\* nothing else and left the tree and every member as they were.
OnlyAnswered(r, name, result) ==
    /\ r.frontend = <<[call |-> name, args |-> <<7, result>>]>>
    /\ [r EXCEPT !.frontend = <<>>] = State

\* C25. Edits on a bad target: when the id does not resolve, or resolves to a
\* node that is no element (setAttribute, removeAttribute, changeTagName,
\* setOuterHTML) or no text node (setTextNodeValue), the edit answers false or
\* id 0, sends nothing else and leaves the DOM and every member unchanged.
C25_EditsOnBadTarget ==
    \A nodeId \in 0..MaxId, refused \in BOOLEAN :
        /\ (nodeForId(State, nodeId) = NULL
              \/ nodeType(nodeForId(State, nodeId)) # ELEMENT_NODE) =>
               /\ \A name \in AttributeNames, value \in AttributeValues :
                      /\ OnlyAnswered(setAttribute(State, 7, nodeId, name, value, refused),
                                      "didApplyDomChange", FALSE)
                      /\ OnlyAnswered(removeAttribute(State, 7, nodeId, name, refused),
                                      "didApplyDomChange", FALSE)
               /\ \A name \in TagNames, refusedRemove \in BOOLEAN :
                      OnlyAnswered(changeTagName(State, 7, nodeId, name, refused, refusedRemove),
                                   "didChangeTagName", 0)
               /\ \A outerHTML \in Markups :
                      OnlyAnswered(setOuterHTML(State, 7, nodeId, outerHTML, refused),
                                   "didSetOuterHTML", 0)
        /\ (nodeForId(State, nodeId) = NULL
              \/ nodeType(nodeForId(State, nodeId)) # TEXT_NODE) =>
               \A value \in TextValues :
                   OnlyAnswered(setTextNodeValue(State, 7, nodeId, value, refused),
                                "didApplyDomChange", FALSE)
        /\ nodeForId(State, nodeId) = NULL =>
               OnlyAnswered(removeNode(State, 7, nodeId, refused), "didRemoveNode", 0)

\* An id that was issued resolves no more, one resolves to a text node and one
\* to an element: each edit has a target of the wrong type and a missing one.
C25_Witness ==
    /\ \E id \in Range(issued) : nodeForId(State, id) = NULL
    /\ \E id \in Range(issued) :
           nodeForId(State, id) # NULL /\ nodeType(nodeForId(State, id)) = TEXT_NODE
    /\ \E id \in Range(issued) :
           nodeForId(State, id) # NULL /\ nodeType(nodeForId(State, id)) = ELEMENT_NODE
    /\ mutations > 0

\* The calls on the front-end that answer a request.
ResponseNames ==
    {"didGetChildNodes", "didApplyDomChange", "didRemoveNode", "didChangeTagName",
     "didSetOuterHTML", "didPushNodeByPathToFrontend"}

Responses(r) == SelectSeq(r.frontend, LAMBDA c : c.call \in ResponseNames)

\* The handler that led to r answered once, with the call id 7 of the request.
AnsweredOnce(r) ==
    /\ Len(Responses(r)) = 1
    /\ Responses(r)[1].args[1] = 7

\* C26. Every request is answered exactly once, with its call id: getChildNodes,
\* setAttribute, removeAttribute, removeNode, changeTagName, setOuterHTML,
\* setTextNodeValue and pushNodeByPathToFrontend, for an id that resolves or
\* not, and whether or not the tree's mutation primitive refuses the edit.
C26_OneResponse ==
    /\ \A path \in Paths : AnsweredOnce(pushNodeByPathToFrontend(State, 7, path))
    /\ \A nodeId \in 0..MaxId :
           /\ AnsweredOnce(getChildNodes(State, 7, nodeId))
           /\ \A refused \in BOOLEAN :
                  /\ AnsweredOnce(removeNode(State, 7, nodeId, refused))
                  /\ \A name \in AttributeNames :
                         /\ AnsweredOnce(removeAttribute(State, 7, nodeId, name, refused))
                         /\ \A value \in AttributeValues :
                                AnsweredOnce(setAttribute(State, 7, nodeId, name, value, refused))
                  /\ \A value \in TextValues :
                         AnsweredOnce(setTextNodeValue(State, 7, nodeId, value, refused))
                  /\ (\A n \in CreatedNode : Unused(State, n)) =>
                         /\ \A outerHTML \in Markups :
                                AnsweredOnce(setOuterHTML(State, 7, nodeId, outerHTML, refused))
                         /\ \A name \in TagNames, refusedRemove \in BOOLEAN :
                                AnsweredOnce(changeTagName(State, 7, nodeId, name,
                                                           refused, refusedRemove))

\* The handler that led to r answered call 7 with the id 0.
AnsweredZero(r, name) ==
    \E i \in 1..Len(r.frontend) :
        r.frontend[i].call = name /\ r.frontend[i].args = <<7, 0>>

\* Every node of the page has in r the children, the attributes and the data
\* it had before the handler.
SameTree(r) ==
    \A n \in Node :
        /\ r.childNodes[n] = childNodes[n]
        /\ r.elementAttributes[n] = elementAttributes[n]
        /\ r.characterData[n] = characterData[n]

\* C27. Mutation rejected: when changeTagName(), setOuterHTML() or removeNode()
\* answers with id 0 because a mutation primitive of the tree refused (ec # 0),
\* the tree is as it was before the call.
C27_MutationRejected ==
    \A nodeId \in 0..MaxId, refused \in BOOLEAN :
        /\ LET r == removeNode(State, 7, nodeId, refused)
           IN  (r.ec # 0 /\ AnsweredZero(r, "didRemoveNode")) => SameTree(r)
        /\ (\A n \in CreatedNode : Unused(State, n)) =>
               /\ \A outerHTML \in Markups :
                      LET r == setOuterHTML(State, 7, nodeId, outerHTML, refused)
                      IN  (r.ec # 0 /\ AnsweredZero(r, "didSetOuterHTML")) => SameTree(r)
               /\ \A name \in TagNames, refusedRemove \in BOOLEAN :
                      LET r == changeTagName(State, 7, nodeId, name, refused, refusedRemove)
                      IN  (r.ec # 0 /\ AnsweredZero(r, "didChangeTagName")) => SameTree(r)

\* C28. pushChildNodesToFrontend(id) has an effect only if id resolves to an
\* element, a document or a fragment whose children were not requested yet:
\* then every visible child is bound in the map that owns id, id is in
\* m_childrenRequested and exactly one setChildNodes(id, children) is sent, the
\* children in order with their ids; a second call changes and sends nothing.
\* In every other case the call sends nothing and leaves every member unchanged.
C28_PushChildren ==
    \A nodeId \in 0..MaxId :
        LET r == pushChildNodesToFrontend(State, nodeId)
            node == nodeForId(State, nodeId)
        IN
        IF node # NULL /\ isContainer(node) /\ nodeId \notin m_childrenRequested
        THEN LET map == mapOf(r, get(m_idToNodesMap, nodeId))
                 children == innerChildren(childNodes, node)
             IN
             /\ Len(r.frontend) = 1
             /\ r.frontend[1].call = "setChildNodes"
             /\ r.frontend[1].args[1] = nodeId
             /\ Len(r.frontend[1].args[2]) = Len(children)
             /\ \A i \in 1..Len(children) :
                    /\ get(map, children[i]) # 0
                    /\ r.frontend[1].args[2][i].id = get(map, children[i])
                    /\ nodeForId(r, get(map, children[i])) = children[i]
             /\ r.m_childrenRequested = m_childrenRequested \cup {nodeId}
             /\ pushChildNodesToFrontend([r EXCEPT !.frontend = <<>>], nodeId)
                    = [r EXCEPT !.frontend = <<>>]
        ELSE r = State

\* The children of one node were requested; another bound node has two visible
\* children, one of them not bound yet, and its children were not requested.
C28_Witness ==
    /\ m_childrenRequested # {}
    /\ \E nodeId \in 1..MaxId :
           /\ nodeForId(State, nodeId) # NULL
           /\ nodeId \notin m_childrenRequested
           /\ innerChildNodeCount(childNodes, nodeForId(State, nodeId)) >= 2
           /\ \E child \in Range(innerChildren(childNodes, nodeForId(State, nodeId))) :
                  get(m_documentNodeToIdMap, child) = 0
           /\ WithinBounds(pushChildNodesToFrontend(State, nodeId))

\* C29. A reattached subtree keeps no stale ids: after didInsertDOMNode(node),
\* called with the node in its new place, neither the node nor any of its
\* visible descendants is bound in the live map to an id that was allocated
\* before the insertion.
C29_ReattachedNoStaleIds ==
    \A node \in Node :
        parentNode(childNodes, node) = NULL =>
            \A parent \in AllowedParent(node) :
                \A i \in 0..Len(childNodes[parent]) :
                    LET t == [childNodes EXCEPT ![parent] = InsertAt(@, i, node)]
                        r == didInsertDOMNode([State EXCEPT !.childNodes = t], node)
                    IN  \A d \in {node} \cup visibleDescendants(t, node) :
                            get(r.m_documentNodeToIdMap, d) \notin Range(issued)

\* C30. Identity-changing edit: when changeTagName() goes through on an
\* element whose id is in m_childrenRequested, its answer carries an id that is
\* not 0 and not the old id and that resolves to the new element, that id is in
\* m_childrenRequested, and the old id resolves no more.
C30_ChangeTagNameIdentity ==
    \A nodeId \in m_childrenRequested, refusedInsert \in BOOLEAN, refusedRemove \in BOOLEAN :
        (/\ nodeForId(State, nodeId) # NULL
         /\ nodeType(nodeForId(State, nodeId)) = ELEMENT_NODE
         /\ \A n \in CreatedNode : Unused(State, n)) =>
            LET r == changeTagName(State, 7, nodeId, <<"e", "m">>, refusedInsert, refusedRemove)
                newId == LastOrNull(CallsNamed(r, "didChangeTagName")).args[2]
            IN  (~r.crashed /\ r.ec = 0) =>
                    /\ Len(CallsNamed(r, "didChangeTagName")) = 1
                    /\ newId # 0
                    /\ newId # nodeId
                    /\ nodeForId(r, newId) = "created"
                    /\ newId \in r.m_childrenRequested
                    /\ nodeForId(r, nodeId) = NULL

----------------------------------------------------------------------------
(* Query classification. *)

\* Queries of the form <name>, name a valid name.
TagQueries == {<<"<", "b", ">">>, <<"<", "o", "b", "j", "e", "c", "t", ">">>}

\* The text between the delimiters of a query of the form <name>.
InnerName(query) == SubSeq(query, 2, Len(query) - 1)

\* C31. Rule 1 of the classification: for a query <name>, name a valid name,
\* performSearch() queues for each document exactly two jobs, in this order: an
\* exact-tag match on name, then a plain-text-contains match; none of the jobs
\* of rule 5 (exact id, exact class, selector, raw query) is queued.
C31_TagQueryJobs ==
    \A query \in TagQueries :
        (mainFrameDocument(State) # NULL /\ isValidName(InnerName(query))) =>
            LET jobs == performSearch(State, query, FALSE).m_pendingMatchJobs
                docs == frameDocuments(childNodes, mainFrameDocument(State))
            IN
            /\ Len(jobs) = 2 * Len(docs)
            /\ \A i \in 1..Len(docs) :
                   /\ jobs[2 * i - 1] = MatchJob("ExactTagNames", docs[i], InnerName(query))
                   /\ jobs[2 * i].kind = "PlainText"
                   /\ jobs[2 * i].document = docs[i]

\* The documents of the jobs of a queue, each once, in the order of the queue.
RECURSIVE JobDocuments(_)
JobDocuments(jobs) ==
    IF jobs = <<>> THEN <<>>
    ELSE <<Head(jobs).document>>
         \o SelectSeq(JobDocuments(Tail(jobs)), LAMBDA d : d # Head(jobs).document)

\* The jobs of a queue for one document, without the document.
JobList(jobs, document) ==
    LET own == SelectSeq(jobs, LAMBDA j : j.document = document)
    IN  [i \in 1..Len(own) |-> <<own[i].kind, own[i].query>>]

\* Every document with jobs in the queue has the same list of jobs.
SameJobList(jobs) ==
    \A d, e \in Range(JobDocuments(jobs)) : JobList(jobs, d) = JobList(jobs, e)

\* C32 as stated: performSearch() queues jobs for exactly the documents the
\* agent listens to, with the same list of jobs for each.
C32_ListenedScopes ==
    \A query \in Queries \cup TagQueries :
        mainFrameDocument(State) # NULL =>
            LET jobs == performSearch(State, query, FALSE).m_pendingMatchJobs
            IN  /\ Range(JobDocuments(jobs)) = Range(m_documents)
                /\ SameJobList(jobs)

\* C32, amended. performSearch() queues jobs for exactly the documents of the
\* frame tree of the main frame, the main document first, whether or not the
\* agent listens to them, with the same non-empty list of jobs for each.
C32_FrameTreeScopes ==
    \A query \in Queries \cup TagQueries :
        mainFrameDocument(State) # NULL =>
            LET jobs == performSearch(State, query, FALSE).m_pendingMatchJobs
            IN  /\ JobDocuments(jobs) = frameDocuments(childNodes, mainFrameDocument(State))
                /\ SameJobList(jobs)
                /\ jobs # <<>>

\* A search is in progress with jobs for the document of a frame the agent does
\* not listen to.
C32_Witness ==
    /\ m_matchJobsTimer.active
    /\ \E i \in 1..Len(m_pendingMatchJobs) :
           /\ m_pendingMatchJobs[i].document = "doc2"
           /\ "doc2" \notin Range(m_documents)
           /\ "doc2" \in Range(frameDocuments(childNodes, mainFrameDocument(State)))

\* C33. The exact-tag job adds to the collector exactly the elements of its
\* document whose tag name equals the job's query, and nothing when the query is
\* empty: the tick that runs it reports those of them the search has not
\* reported yet.
C33_ExactTagMatches ==
    (/\ m_matchJobsTimer.active
     /\ m_pendingMatchJobs # <<>>
     /\ Head(m_pendingMatchJobs).kind = "ExactTagNames") =>
        LET job == Head(m_pendingMatchJobs)
            tagged == IF job.query = <<>> THEN {}
                      ELSE {n \in Range(elementsOf(childNodes, job.document)) :
                                tagName(n) = job.query}
        IN  /\ Range(addAll(<<>>, match(childNodes, job))) = tagged
            /\ ReportedNodes(onMatchJobsTimer(State)) = tagged \ searchReported

\* The selector or XPath expression of the job does not parse: querySelectorAll()
\* or evaluate() sets ec.
Malformed(job) ==
    \/ job.kind \in {"QuerySelectorAll:attribute", "QuerySelectorAll"} /\ ~isValidName(job.query)
    \/ /\ job.kind \in {"XPath:starts-with-name", "XPath:contains-name",
                        "XPath:contains-attribute", "PlainText"}
       /\ ~xpathLiteralParses(job.query)
    \/ job.kind = "XPath" /\ job.query # AllTextQuery /\ ~isValidName(job.query)

\* C34. Malformed query: the tick that runs a selector or XPath job whose
\* expression does not parse reports no node, sends the front-end nothing but one
\* addNodesToSearchResult with an empty array, takes the job off the queue and
\* arms the timer again; the tick after it runs the next job and reports what
\* that job matches (less what the search reported already).
C34_MalformedQuery ==
    (/\ m_matchJobsTimer.active
     /\ m_pendingMatchJobs # <<>>
     /\ Malformed(Head(m_pendingMatchJobs))) =>
        LET r == onMatchJobsTimer([State EXCEPT !.frontend = <<>>]) IN
        /\ r.frontend = <<[call |-> "addNodesToSearchResult", args |-> <<<<>>>>]>>
        /\ r.reported = <<<<>>>>
        /\ r.m_pendingMatchJobs = Tail(m_pendingMatchJobs)
        /\ r.m_matchJobsTimer.active
        /\ r.m_searchResults = m_searchResults
        /\ r.m_pendingMatchJobs # <<>> =>
               ReportedNodes(onMatchJobsTimer([r EXCEPT !.reported = <<>>]))
                   = Range(match(childNodes, Head(r.m_pendingMatchJobs))) \ searchReported

\* A search for //text() has run its two selector jobs, which do not parse, and
\* goes on: the raw XPath job still pending matches a text node.
C34_Witness ==
    /\ m_matchJobsTimer.active
    /\ m_pendingMatchJobs # <<>>
    /\ LastJob.query = AllTextQuery
    /\ Head(m_pendingMatchJobs).kind = "XPath:contains-attribute"
    /\ \E i \in 1..Len(m_pendingMatchJobs) :
           /\ m_pendingMatchJobs[i].document = Head(m_pendingMatchJobs).document
           /\ m_pendingMatchJobs[i].kind = "XPath"
           /\ match(childNodes, m_pendingMatchJobs[i]) # <<>>

\* The handler that led to r ran to its end and answered the request with a
\* failure (id 0).
FailedSafely(r, name) ==
    /\ ~r.crashed
    /\ AnsweredZero(r, name)

\* C35. No operation is fatal on an absent node: performSearch() without a main
\* document ends without a search in progress and with nothing reported, and
\* changeTagName() and setOuterHTML() of an element that resolves but has no
\* parent (the root of a detached subtree) end with a failure answer, none of
\* them going through the missing document or parent.
C35_NothingFatal ==
    /\ mainFrameDocument(State) = NULL =>
           \A query \in Queries, runSynchronously \in BOOLEAN :
               LET r == performSearch(State, query, runSynchronously)
               IN  /\ ~r.crashed
                   /\ TornDown(r)
                   /\ ReportedNodes(r) = {}
    /\ \A nodeId \in 1..MaxId :
           (/\ nodeForId(State, nodeId) # NULL
            /\ nodeType(nodeForId(State, nodeId)) = ELEMENT_NODE
            /\ parentNode(childNodes, nodeForId(State, nodeId)) = NULL
            /\ \A n \in CreatedNode : Unused(State, n)) =>
               /\ \A refusedInsert \in BOOLEAN, refusedRemove \in BOOLEAN :
                      FailedSafely(changeTagName(State, 7, nodeId, <<"e", "m">>,
                                                 refusedInsert, refusedRemove),
                                   "didChangeTagName")
               /\ \A refused \in BOOLEAN :
                      FailedSafely(setOuterHTML(State, 7, nodeId, CreatedMarkup, refused),
                                   "didSetOuterHTML")

\* The loop over `path` of pushNodePathToFrontend() finds, for each ancestor
\* from path[i] down to path[1], a non-zero id in the map `ref` at the moment it
\* reaches it.
RECURSIVE PathIdsAsserted(_, _, _, _)
PathIdsAsserted(s, path, i, ref) ==
    \/ i < 1
    \/ /\ get(mapOf(s, ref), path[i]) # 0
       /\ PathIdsAsserted(pushChildNodesToFrontend(s, get(mapOf(s, ref), path[i])),
                          path, i - 1, ref)

\* ASSERT(nodeId) holds throughout pushNodePathToFrontend(nodeToPush), s being the
\* agent after its call of pushDocumentToFrontend().
PushAsserted(s, nodeToPush) ==
    (s.ret /\ get(s.m_documentNodeToIdMap, nodeToPush) = 0) =>
        LET w == walkToKnownAncestor(s, nodeToPush, <<>>) IN
        IF w.detachedRoot # NULL
        THEN PathIdsAsserted(pushDetachedRoot(s, w.detachedRoot), w.path, Len(w.path),
                             Len(s.m_danglingNodeToIdMaps) + 1)
        ELSE PathIdsAsserted(s, w.path, Len(w.path), 0)

\* A page whose frame holds a document with a subtree of its own:
\* doc > div > frame, and in the frame's document inner > span > text.
FrameTree ==
    [n \in AnyNode |->
        CASE n = "doc" -> <<"div">>
          [] n = "div" -> <<"frame">>
          [] n = "doc2" -> <<"inner">>
          [] n = "inner" -> <<"span">>
          [] n = "span" -> <<"txt">>
          [] OTHER -> <<>>]

\* The agent after construction, inspecting that page.
FrameInit ==
    /\ childNodes = FrameTree
    /\ elementAttributes = [n \in AnyNode |-> markupAttributes(n)]
    /\ characterData = [n \in AnyNode |-> markupData(n)]
    /\ m_documents = <<>>
    /\ m_documentNodeToIdMap = EmptyMap
    /\ m_idToNode = EmptyMap
    /\ m_idToNodesMap = EmptyMap
    /\ m_danglingNodeToIdMaps = <<>>
    /\ m_childrenRequested = {}
    /\ m_inspectedNodes = <<>>
    /\ m_lastNodeId = 1
    /\ m_pendingMatchJobs = <<>>
    /\ m_searchResults = <<>>
    /\ m_matchJobsTimer = TimerStopped
    /\ mutations = 0
    /\ issued = <<>>
    /\ searchReported = {}

FrameSpec == FrameInit /\ [][Next]_vars

\* C36. The assertion of pushNodePathToFrontend() holds in every reachable
\* state: each ancestor on the path has a non-zero id in the chosen map (the
\* live one or the fresh detached one) at the moment the loop reaches it.
C36_PushPathAssertion ==
    \A nodeToPush \in Node : PushAsserted(pushDocumentToFrontend(State), nodeToPush)

\* C37. Disclosure implies bound children: every id in m_childrenRequested
\* resolves to a node, and every child the front-end sees under that node (for a
\* frame owner, the top-level nodes of its content document) is bound in the map
\* that owns the id.
C37_DisclosedChildrenBound ==
    \A id \in m_childrenRequested :
        /\ id \in DOMAIN m_idToNode
        /\ id \in DOMAIN m_idToNodesMap
        /\ m_idToNodesMap[id] \in MapRefs(State)
        /\ \A c \in Range(visibleChildren(childNodes, m_idToNode[id])) :
               get(mapOf(State, m_idToNodesMap[id]), c) # 0

\* Every addNodesToSearchResult the handler that led to r sent carries, for each
\* node it reports, a non-zero id that resolves to that node.
ReportedIdsResolve(r) ==
    LET calls == CallsNamed(r, "addNodesToSearchResult") IN
    /\ Len(calls) = Len(r.reported)
    /\ \A k \in 1..Len(calls) :
           /\ Len(calls[k].args[1]) = Len(r.reported[k])
           /\ \A i \in 1..Len(r.reported[k]) :
                  /\ calls[k].args[1][i] # 0
                  /\ nodeForId(r, calls[k].args[1][i]) = r.reported[k][i]

\* C38. Every id in an addNodesToSearchResult is non-zero and resolves to the
\* matched node when the record is sent, whatever mutations, content-ready
\* events and pushes came between the ticks of the search.
C38_SearchIdsResolve ==
    (m_matchJobsTimer.active /\ m_pendingMatchJobs # <<>>) =>
        ReportedIdsResolve(onMatchJobsTimer(State))

\* C39. Idle search invariant: between operations, whenever the timer of the
\* search is not armed, no job is pending and m_searchResults is empty; pending
\* jobs or a non-empty m_searchResults imply an armed timer.
C39_IdleSearch ==
    (m_pendingMatchJobs # <<>> \/ m_searchResults # <<>>) => m_matchJobsTimer.active

\* The last job of a search has run and reported nodes: nothing is pending,
\* m_searchResults is not empty, and the armed timer's next tick tears the search
\* down.
C39_Witness ==
    /\ m_matchJobsTimer.active
    /\ m_pendingMatchJobs = <<>>
    /\ m_searchResults # <<>>
    /\ TornDown(onMatchJobsTimer(State))

\* C40. No orphaned owning-map entries: an id has an entry in m_idToNodesMap only
\* if it resolves to a node; unbind(), discardBindings() and reset() take the
\* entry away with the id.
C40_NoOrphanedOwners ==
    /\ DOMAIN m_idToNodesMap \subseteq DOMAIN m_idToNode
    /\ \A node \in Node, ref \in MapRefs(State) :
           DOMAIN unbind(State, node, ref).m_idToNodesMap
               \subseteq DOMAIN unbind(State, node, ref).m_idToNode
    /\ DOMAIN discardBindings(State).m_idToNodesMap = {}
    /\ DOMAIN reset(State).m_idToNodesMap = {}

====
